---------------------------- MODULE Spec2Model ----------------------------
(***************************************************************************)
(* A model of the RQL parser of swimlane/rql (src/src/parser.ts,           *)
(* src/src/converters.ts, src/src/query.ts).                               *)
(*                                                                         *)
(* A JavaScript string is a sequence of one-character strings.  Indices    *)
(* are the source's 0-based indices: At(s, i) is s[i] of the source.       *)
(* A function that can throw returns Return(v) or Throw(kind).             *)
(***************************************************************************)
EXTENDS Integers, Sequences, FiniteSets, TLC

VARIABLES drawn, text, fn, result, frame

vars == <<drawn, text, fn, result, frame>>

(***************************************************************************)
(* Strings                                                                 *)
(***************************************************************************)
At(s, i) == s[i + 1]

Slice(s, from) == IF from >= Len(s) THEN <<>> ELSE SubSeq(s, from + 1, Len(s))

Substring(s, from, to) == IF to <= from THEN <<>> ELSE SubSeq(s, from + 1, to)

IndexOf(s, c) ==
  IF \E i \in 1..Len(s) : s[i] = c
  THEN (CHOOSE i \in 1..Len(s) : s[i] = c /\ \A j \in 1..(i - 1) : s[j] # c) - 1
  ELSE -1

Whitespace == {" ", "\t", "\n", "\r", "\f"}

LineTerminators == {"\n", "\r"}

RECURSIVE TrimStart(_)
TrimStart(s) ==
  IF s # <<>> /\ Head(s) \in Whitespace THEN TrimStart(Tail(s)) ELSE s

RECURSIVE TrimEnd(_)
TrimEnd(s) ==
  IF s # <<>> /\ s[Len(s)] \in Whitespace
  THEN TrimEnd(SubSeq(s, 1, Len(s) - 1)) ELSE s

StringTrim(s) == TrimEnd(TrimStart(s))

Return(v) == [ok |-> TRUE, val |-> v]

Throw(kind) == [ok |-> FALSE, err |-> kind]

RQLParseError == "RQLParseError"

RQLConversionError == "RQLConversionError"

delimiter == "\\"

(***************************************************************************)
(* inside: the text between the opening paren at index 0 and its match.    *)
(***************************************************************************)
RECURSIVE insideLoop(_, _, _, _, _, _)
insideLoop(str, index, insideStr, untilCount, delimited, quoteType) ==
  IF ~(index < Len(str)) THEN Throw(RQLParseError)
  ELSE
    LET char == At(str, index) IN
    IF delimited
    THEN insideLoop(str, index + 1, Append(insideStr, char), untilCount, FALSE, quoteType)
    ELSE IF quoteType = "" /\ char = delimiter
    THEN insideLoop(str, index + 1, insideStr, untilCount, TRUE, quoteType)
    ELSE IF char = "'" \/ char = "\""
    THEN insideLoop(str, index + 1, Append(insideStr, char), untilCount, FALSE,
                    IF quoteType = "" THEN char
                    ELSE IF quoteType = char THEN "" ELSE quoteType)
    ELSE IF quoteType # ""
    THEN insideLoop(str, index + 1, Append(insideStr, char), untilCount, FALSE, quoteType)
    ELSE IF char = "("
    THEN insideLoop(str, index + 1, Append(insideStr, char), untilCount + 1, FALSE, quoteType)
    ELSE IF char = ")"
    THEN IF untilCount - 1 = 0
         THEN Return(insideStr)
         ELSE insideLoop(str, index + 1, Append(insideStr, char), untilCount - 1, FALSE, quoteType)
    ELSE insideLoop(str, index + 1, Append(insideStr, char), untilCount, FALSE, quoteType)

\* inside with the scan started on the opening paren itself
insideFromParen(str) == insideLoop(str, 0, <<>>, 1, FALSE, "")

\* inside returning what it has read when the text ends unclosed
insideNoThrow(str) ==
  LET r == insideLoop(str, 1, <<>>, 1, FALSE, "") IN
  IF r.ok THEN r ELSE Return(Slice(str, 1))

\* inside without the escape character: a backslash is a character like any other
RECURSIVE insideNoEscapeLoop(_, _, _, _, _)
insideNoEscapeLoop(str, index, insideStr, untilCount, quoteType) ==
  IF ~(index < Len(str)) THEN Throw(RQLParseError)
  ELSE
    LET char == At(str, index) IN
    IF char = "'" \/ char = "\""
    THEN insideNoEscapeLoop(str, index + 1, Append(insideStr, char), untilCount,
                            IF quoteType = "" THEN char
                            ELSE IF quoteType = char THEN "" ELSE quoteType)
    ELSE IF quoteType # ""
    THEN insideNoEscapeLoop(str, index + 1, Append(insideStr, char), untilCount, quoteType)
    ELSE IF char = "("
    THEN insideNoEscapeLoop(str, index + 1, Append(insideStr, char), untilCount + 1, quoteType)
    ELSE IF char = ")" /\ untilCount - 1 = 0
    THEN Return(insideStr)
    ELSE insideNoEscapeLoop(str, index + 1, Append(insideStr, char),
                            IF char = ")" THEN untilCount - 1 ELSE untilCount, quoteType)

insideNoEscape(str) == insideNoEscapeLoop(str, 1, <<>>, 1, "")

inside(str) == insideLoop(str, 1, <<>>, 1, FALSE, "")

(***************************************************************************)
(* trim: surrounding whitespace and one pair of matching quotes.           *)
(***************************************************************************)
\* /^q.*q$/ : the dot matches no line terminator.
Wrapped(s, q) ==
  /\ Len(s) >= 2
  /\ s[1] = q
  /\ s[Len(s)] = q
  /\ \A i \in 2..(Len(s) - 1) : s[i] \notin LineTerminators

trim(str) ==
  LET trimmed == StringTrim(str) IN
  IF Wrapped(trimmed, "'") \/ Wrapped(trimmed, "\"")
  THEN SubSeq(trimmed, 2, Len(trimmed) - 1)
  ELSE trimmed

(***************************************************************************)
(* splitArguments: the arguments of a call body.  An argument is           *)
(* StrArg(s), a string, or ArrArg(a), the arguments of a nested array.     *)
(***************************************************************************)
StrArg(s) == [t |-> "str", s |-> s]

ArrArg(a) == [t |-> "arr", a |-> a]

RECURSIVE SpaceRun(_, _)
SpaceRun(s, p) == IF p < Len(s) /\ At(s, p) = " " THEN 1 + SpaceRun(s, p + 1) ELSE 0

\* The length of the first match of /( *,)| *$/ in s, looked for from position p.
RECURSIVE toNextArgFrom(_, _)
toNextArgFrom(s, p) ==
  LET n == SpaceRun(s, p) IN
  IF p + n < Len(s) /\ At(s, p + n) = "," THEN n + 1
  ELSE IF p + n = Len(s) THEN n
  ELSE toNextArgFrom(s, p + 1)

toNextArg(s) == toNextArgFrom(s, 0)

RECURSIVE splitArguments(_)
RECURSIVE splitLoop(_, _, _, _, _, _)
splitLoop(str, index, args, currentArg, delimited, quoteType) ==
  IF ~(index < Len(str))
  THEN Return(IF Len(StringTrim(currentArg)) > 0
              THEN Append(args, StrArg(trim(currentArg))) ELSE args)
  ELSE
    LET char == At(str, index) IN
    IF delimited
    THEN splitLoop(str, index + 1, args, Append(currentArg, char), FALSE, quoteType)
    ELSE IF quoteType = "" /\ char = delimiter
    THEN splitLoop(str, index + 1, args, currentArg, TRUE, quoteType)
    ELSE IF char = "'" \/ char = "\""
    THEN IF quoteType = ""
         THEN splitLoop(str, index + 1, args, currentArg, FALSE, char)
         ELSE IF quoteType = char
         THEN splitLoop(str, index + 1, args, currentArg, FALSE, "")
         ELSE splitLoop(str, index + 1, args, Append(currentArg, char), FALSE, quoteType)
    ELSE IF quoteType # ""
    THEN splitLoop(str, index + 1, args, Append(currentArg, char), FALSE, quoteType)
    ELSE IF Len(currentArg) = 0
    THEN IF char = "("
         THEN LET arr == inside(Slice(str, index)) IN
              IF ~arr.ok THEN arr
              ELSE LET sub == splitArguments(arr.val) IN
                   IF ~sub.ok THEN sub
                   ELSE LET jumped == index + Len(arr.val) + 1
                            next   == jumped + toNextArg(Slice(str, jumped))
                        IN splitLoop(str, next + 1, Append(args, ArrArg(sub.val)),
                                     currentArg, FALSE, quoteType)
         ELSE IF char = " "
         THEN splitLoop(str, index + 1, args, currentArg, FALSE, quoteType)
         ELSE splitLoop(str, index + 1, args, Append(currentArg, char), FALSE, quoteType)
    ELSE IF char = ","
    THEN splitLoop(str, index + 1, Append(args, StrArg(trim(currentArg))), <<>>, FALSE, quoteType)
    ELSE IF char = "("
    THEN LET strInside == inside(Slice(str, index)) IN
         IF ~strInside.ok THEN strInside
         ELSE splitLoop(str, index + Len(strInside.val) + 1, args,
                        currentArg \o <<char>> \o strInside.val, FALSE, quoteType)
    ELSE splitLoop(str, index + 1, args, Append(currentArg, char), FALSE, quoteType)

splitArguments(str) == splitLoop(str, 0, <<>>, <<>>, FALSE, "")

(***************************************************************************)
(* Characters                                                              *)
(***************************************************************************)
LowerLetters ==
  {"a", "b", "c", "d", "e", "f", "g", "h", "i", "j", "k", "l", "m",
   "n", "o", "p", "q", "r", "s", "t", "u", "v", "w", "x", "y", "z"}

UpperLetters ==
  {"A", "B", "C", "D", "E", "F", "G", "H", "I", "J", "K", "L", "M",
   "N", "O", "P", "Q", "R", "S", "T", "U", "V", "W", "X", "Y", "Z"}

Digits == {"0", "1", "2", "3", "4", "5", "6", "7", "8", "9"}

\* \w of a JavaScript regular expression
WordChars == LowerLetters \cup UpperLetters \cup Digits \cup {"_"}

UpperSeq ==
  <<"A", "B", "C", "D", "E", "F", "G", "H", "I", "J", "K", "L", "M",
    "N", "O", "P", "Q", "R", "S", "T", "U", "V", "W", "X", "Y", "Z">>

LowerSeq ==
  <<"a", "b", "c", "d", "e", "f", "g", "h", "i", "j", "k", "l", "m",
    "n", "o", "p", "q", "r", "s", "t", "u", "v", "w", "x", "y", "z">>

LowerChar(c) ==
  IF c \in UpperLetters
  THEN LowerSeq[CHOOSE i \in 1..26 : UpperSeq[i] = c]
  ELSE c

toLowerCase(s) == [i \in 1..Len(s) |-> LowerChar(s[i])]

DigitSeq == <<"0", "1", "2", "3", "4", "5", "6", "7", "8", "9">>

DigitValue(c) == (CHOOSE i \in 1..10 : DigitSeq[i] = c) - 1

HexSeq ==
  <<"0", "1", "2", "3", "4", "5", "6", "7", "8", "9", "a", "b", "c", "d", "e", "f">>

HexChars == Digits \cup {"a", "b", "c", "d", "e", "f", "A", "B", "C", "D", "E", "F"}

HexValue(c) == (CHOOSE i \in 1..16 : HexSeq[i] = LowerChar(c)) - 1

\* The characters of codes 32..126, in order (the grave accent, which a
\* TLA+ string cannot hold, by its code).
Ascii ==
  <<" ", "!", "\"", "#", "$", "%", "&", "'", "(", ")", "*", "+", ",", "-", ".", "/",
    "0", "1", "2", "3", "4", "5", "6", "7", "8", "9", ":", ";", "<", "=", ">", "?",
    "@", "A", "B", "C", "D", "E", "F", "G", "H", "I", "J", "K", "L", "M", "N", "O",
    "P", "Q", "R", "S", "T", "U", "V", "W", "X", "Y", "Z", "[", "\\", "]", "^", "_",
    "\\x96", "a", "b", "c", "d", "e", "f", "g", "h", "i", "j", "k", "l", "m", "n", "o",
    "p", "q", "r", "s", "t", "u", "v", "w", "x", "y", "z", "{", "|", "}", "~">>

\* The character of a code below 128; a control character is written by its code.
CharOfCode(b) ==
  IF b >= 32 /\ b <= 126 THEN Ascii[b - 31]
  ELSE IF b = 9 THEN "\t"
  ELSE IF b = 10 THEN "\n"
  ELSE IF b = 12 THEN "\f"
  ELSE IF b = 13 THEN "\r"
  ELSE "\\x" \o ToString(b)

(***************************************************************************)
(* Values, and the converters of src/src/converters.ts                     *)
(***************************************************************************)
StringVal(s) == [t |-> "val", type |-> "string", str |-> s]

NumberVal(n) == [t |-> "val", type |-> "number", num |-> n]

NaNVal == [t |-> "val", type |-> "number", nan |-> TRUE]

InfinityVal(sign) == [t |-> "val", type |-> "number", inf |-> sign]

BooleanVal(b) == [t |-> "val", type |-> "boolean", bool |-> b]

NullVal == [t |-> "val", type |-> "null"]

UndefinedVal == [t |-> "val", type |-> "undefined"]

RegExpVal(source, ignoreCase) ==
  [t |-> "val", type |-> "regexp", source |-> source, ignoreCase |-> ignoreCase]

ObjectVal(s) == [t |-> "val", type |-> "object", wraps |-> s]

S_true == <<"t", "r", "u", "e">>

S_false == <<"f", "a", "l", "s", "e">>

S_null == <<"n", "u", "l", "l">>

S_undefined == <<"u", "n", "d", "e", "f", "i", "n", "e", "d">>

S_Infinity == <<"I", "n", "f", "i", "n", "i", "t", "y">>

URIError == "URIError"

TypeError == "TypeError"

\* decodeURIComponent.  A sequence of several bytes (a first byte of
\* 0xC2..0xF4) is not modelled: no specification draws one.
RECURSIVE decodeURIComponent(_)
decodeURIComponent(s) ==
  IF s = <<>> THEN Return(<<>>)
  ELSE IF Head(s) # "%"
  THEN LET rest == decodeURIComponent(Tail(s)) IN
       IF rest.ok THEN Return(<<Head(s)>> \o rest.val) ELSE rest
  ELSE IF Len(s) < 3 \/ s[2] \notin HexChars \/ s[3] \notin HexChars
  THEN Throw(URIError)
  ELSE LET b == 16 * HexValue(s[2]) + HexValue(s[3]) IN
       CASE b < 128 ->
              LET rest == decodeURIComponent(SubSeq(s, 4, Len(s))) IN
              IF rest.ok THEN Return(<<CharOfCode(b)>> \o rest.val) ELSE rest
         [] b >= 128 /\ (b < 194 \/ b > 244) -> Throw(URIError)

RECURSIVE DecimalValue(_)
DecimalValue(ds) ==
  IF ds = <<>> THEN 0
  ELSE 10 * DecimalValue(SubSeq(ds, 1, Len(ds) - 1)) + DigitValue(ds[Len(ds)])

AllDigits(s) == s # <<>> /\ \A i \in 1..Len(s) : s[i] \in Digits

\* The numeric literals that are not modelled: fractions and exponents
\* (digits, signs, '.', 'e', 'E' only) and radix prefixes.  No specification
\* draws one.
UnmodelledNumeric(s) ==
  /\ \E i \in 1..Len(s) : s[i] \in Digits
  /\ \/ /\ \A i \in 1..Len(s) : s[i] \in Digits \cup {".", "e", "E", "+", "-"}
        /\ \E i \in 1..Len(s) : s[i] \in {".", "e", "E"}
     \/ /\ Len(s) >= 3
        /\ s[1] = "0"
        /\ s[2] \in {"x", "X", "o", "O", "b", "B"}

\* Number(x)
ToNumber(x) ==
  LET s == StringTrim(x)
      signed == s # <<>> /\ Head(s) \in {"+", "-"}
      sign == IF signed /\ Head(s) = "-" THEN -1 ELSE 1
      body == IF signed THEN Tail(s) ELSE s
  IN CASE s = <<>> -> NumberVal(0)
       [] s # <<>> /\ body = S_Infinity -> InfinityVal(sign)
       [] s # <<>> /\ AllDigits(body) -> NumberVal(sign * DecimalValue(body))
       [] s # <<>> /\ body # S_Infinity /\ ~AllDigits(body) /\ ~UnmodelledNumeric(s) -> NaNVal

number(x) ==
  LET num == ToNumber(x) IN
  IF num = NaNVal THEN Throw(RQLConversionError) ELSE Return(num)

boolean(x) == Return(BooleanVal(toLowerCase(x) = S_true))

string(str) ==
  LET d == decodeURIComponent(str) IN
  IF d.ok THEN Return(StringVal(d.val)) ELSE d

\* JSON.parse of a string literal: text is what stands between the quotes.
RECURSIVE jsonStringBody(_)
jsonStringBody(s) ==
  IF s = <<>> THEN Return(<<>>)
  ELSE IF Head(s) = "\"" \/ Head(s) \in {"\t", "\n", "\r", "\f"} THEN Throw(RQLConversionError)
  ELSE IF Head(s) # "\\"
  THEN LET rest == jsonStringBody(Tail(s)) IN
       IF rest.ok THEN Return(<<Head(s)>> \o rest.val) ELSE rest
  ELSE IF Len(s) < 2 THEN Throw(RQLConversionError)
  ELSE CASE s[2] \in {"\"", "\\", "/"} ->
              LET rest == jsonStringBody(SubSeq(s, 3, Len(s))) IN
              IF rest.ok THEN Return(<<s[2]>> \o rest.val) ELSE rest
         [] s[2] \in {"b", "f", "n", "r", "t"} ->
              LET rest == jsonStringBody(SubSeq(s, 3, Len(s)))
                  c == CASE s[2] = "b" -> CharOfCode(8) [] s[2] = "f" -> "\f"
                         [] s[2] = "n" -> "\n" [] s[2] = "r" -> "\r" [] s[2] = "t" -> "\t"
              IN IF rest.ok THEN Return(<<c>> \o rest.val) ELSE rest
         [] s[2] \notin {"\"", "\\", "/", "b", "f", "n", "r", "t", "u"} ->
              Throw(RQLConversionError)

\* converters.json, for the texts that are one string literal; other JSON
\* texts are not modelled: no specification draws one.
json(x) ==
  CASE Len(x) >= 2 /\ x[1] = "\"" /\ x[Len(x)] = "\"" ->
         LET b == jsonStringBody(SubSeq(x, 2, Len(x) - 1)) IN
         IF b.ok THEN Return(StringVal(b.val)) ELSE b

autoConverted(str) ==
  CASE str = S_true -> BooleanVal(TRUE)
    [] str = S_false -> BooleanVal(FALSE)
    [] str = S_null -> NullVal
    [] str = S_undefined -> UndefinedVal
    [] str = S_Infinity -> InfinityVal(1)
    [] str = <<"-">> \o S_Infinity -> InfinityVal(-1)

autoConvertedKeys ==
  {S_true, S_false, S_null, S_undefined, S_Infinity, <<"-">> \o S_Infinity}

CharAt(s, i) == IF i >= 0 /\ i < Len(s) THEN At(s, i) ELSE ""

auto(str) ==
  IF str \in autoConvertedKeys THEN Return(autoConverted(str))
  ELSE LET n == number(str) IN
       IF n.ok THEN n
       ELSE LET strVal == string(str) IN
            IF ~strVal.ok THEN strVal
            ELSE IF CharAt(strVal.val.str, 0) = "'"
                    /\ CharAt(strVal.val.str, Len(str) - 1) = "'"
            THEN json(<<"\"">> \o Substring(str, 1, Len(str) - 1) \o <<"\"">>)
            ELSE strVal

\* The characters with a meaning in the syntax of a pattern, and those the
\* source of a regular expression writes in another way.
SyntaxChars ==
  {"^", "$", ".", "*", "+", "?", "(", ")", "[", "]", "{", "}", "|", "/", "\n", "\r"}

PlainPattern(s) == \A i \in 1..Len(s) : s[i] \notin SyntaxChars

\* a backslash at the end of the pattern with nothing to escape
RECURSIVE DanglingBackslash(_)
DanglingBackslash(s) ==
  IF s = <<>> THEN FALSE
  ELSE IF Head(s) # "\\" THEN DanglingBackslash(Tail(s))
  ELSE Len(s) = 1 \/ DanglingBackslash(SubSeq(s, 3, Len(s)))

S_emptySource == <<"(", "?", ":", ")">>

\* new RegExp(converters.string(x), flags) inside try/catch: a pattern of
\* literal characters and escaped characters compiles unless its last
\* backslash escapes nothing; every error, that of the decoding too, is
\* thrown again as RQLConversionError.  Other patterns with syntax
\* characters than the source of the empty pattern are not modelled: no
\* specification draws one.
regexp(x, ignoreCase) ==
  LET d == decodeURIComponent(x) IN
  IF ~d.ok THEN Throw(RQLConversionError)
  ELSE CASE d.val = S_emptySource -> Return(RegExpVal(S_emptySource, ignoreCase))
         [] PlainPattern(d.val) ->
              IF DanglingBackslash(d.val) THEN Throw(RQLConversionError)
              ELSE Return(RegExpVal(IF d.val = <<>> THEN S_emptySource ELSE d.val,
                                    ignoreCase))

re(x) == regexp(x, TRUE)

RE(x) == regexp(x, FALSE)

S_auto == <<"a", "u", "t", "o">>

S_default == <<"d", "e", "f", "a", "u", "l", "t">>

S_number == <<"n", "u", "m", "b", "e", "r">>

S_boolean == <<"b", "o", "o", "l", "e", "a", "n">>

S_string == <<"s", "t", "r", "i", "n", "g">>

S_re == <<"r", "e">>

S_RE == <<"R", "E">>

S_json == <<"j", "s", "o", "n">>

S_epoch == <<"e", "p", "o", "c", "h">>

S_isodate == <<"i", "s", "o", "d", "a", "t", "e">>

S_date == <<"d", "a", "t", "e">>

S_constructor == <<"c", "o", "n", "s", "t", "r", "u", "c", "t", "o", "r">>

S___proto__ == <<"_", "_", "p", "r", "o", "t", "o", "_", "_">>

\* The keys k for which converters[k] is truthy: the converters, the
\* default set at the end of the file, and what the object inherits.
converterKeys ==
  {S_auto, S_default, S_number, S_boolean, S_string, S_re, S_RE, S_json,
   S_epoch, S_isodate, S_date, S_constructor, S___proto__}

\* converters[key](str).  The date converters (epoch, isodate, date) are
\* not modelled: no specification draws their tags.
converters(key, str) ==
  CASE key \in {S_auto, S_default} -> auto(str)
    [] key = S_number -> number(str)
    [] key = S_boolean -> boolean(str)
    [] key = S_string -> string(str)
    [] key = S_re -> re(str)
    [] key = S_RE -> RE(str)
    [] key = S_json -> json(str)
    [] key = S_constructor -> Return(ObjectVal(str))
    [] key = S___proto__ -> Throw(TypeError)

(***************************************************************************)
(* stringToValue: a raw argument to its typed value.                       *)
(***************************************************************************)
\* /^\w+[^\\]:/
HasConverterPart(str) ==
  \E k \in 1..(Len(str) - 2) :
    /\ \A i \in 1..k : str[i] \in WordChars
    /\ str[k + 1] # "\\"
    /\ str[k + 2] = ":"

\* str.replace('\\:', ':'): the first occurrence only
RECURSIVE ReplaceFirstEscapedColon(_)
ReplaceFirstEscapedColon(s) ==
  IF Len(s) < 2 THEN s
  ELSE IF s[1] = "\\" /\ s[2] = ":" THEN Tail(s)
  ELSE <<Head(s)>> \o ReplaceFirstEscapedColon(Tail(s))

stringToValue(str) ==
  IF HasConverterPart(str)
  THEN LET ind == IndexOf(str, ":")
           converterPart == toLowerCase(Substring(str, 0, ind))
           valuePart == Slice(str, ind + 1)
       IN IF converterPart \notin converterKeys
          THEN Throw(RQLParseError)
          ELSE converters(converterPart, ReplaceFirstEscapedColon(valuePart))
  ELSE converters(S_default, ReplaceFirstEscapedColon(str))

(***************************************************************************)
(* walkQuery and parseArg: the operator tree.  A node of the tree is       *)
(* OpNode(name, args), ArrNode(items) or a value.                          *)
(***************************************************************************)
OpNode(name, args) == [t |-> "op", name |-> name, args |-> args]

ArrNode(items) == [t |-> "arr", a |-> items]

NoOperator == [t |-> "none"]

EmptyOperator == OpNode(<<>>, <<>>)

S_and == <<"a", "n", "d">>

S_or == <<"o", "r">>

Push(operator, arg) == [operator EXCEPT !.args = Append(@, arg)]

\* /\w+\(/ matches somewhere in str
isRQLQuery(str) ==
  \E i \in 1..(Len(str) - 1) : str[i] \in WordChars /\ str[i + 1] = "("

\* index += insides.length + 1: the index of the loop after a group that
\* starts at index, before the loop adds one to it
jumpIndex(query, index) == index + Len(inside(Slice(query, index)).val) + 1

RECURSIVE walkQuery(_, _, _)
RECURSIVE walkLoop(_, _, _, _, _)
RECURSIVE parseArg(_)
RECURSIVE mapParseArg(_)

\* args.map(parseArg): the first argument that throws ends the map
mapParseArg(args) ==
  IF args = <<>> THEN Return(<<>>)
  ELSE LET first == parseArg(Head(args)) IN
       IF ~first.ok THEN first
       ELSE LET rest == mapParseArg(Tail(args)) IN
            IF ~rest.ok THEN rest ELSE Return(<<first.val>> \o rest.val)

parseArg(arg) ==
  IF arg.t = "str"
  THEN IF isRQLQuery(arg.s) THEN walkQuery(arg.s, 0, NoOperator) ELSE stringToValue(arg.s)
  ELSE LET items == mapParseArg(arg.a) IN
       IF ~items.ok THEN items ELSE Return(ArrNode(items.val))

\* One turn of the loop of walkQuery and what follows it.  While
\* aggregateOperator is false the source's topOperator is currentOperator.
walkLoop(query, index, currentOperator, topOperator, aggregateOperator) ==
  IF ~(index < Len(query))
  THEN Return(IF aggregateOperator THEN Push(topOperator, currentOperator)
              ELSE currentOperator)
  ELSE
    LET char == At(query, index) IN
    IF char = "&" \/ char = ","
    THEN IF aggregateOperator /\ topOperator.name = S_or
         THEN LET nestedOperator == OpNode(S_and, <<currentOperator>>)
                  nested == walkQuery(query, index + 1, nestedOperator)
              IN IF ~nested.ok THEN nested ELSE Return(Push(topOperator, nested.val))
         ELSE walkLoop(query, index + 1, EmptyOperator,
                       Push(IF ~aggregateOperator THEN OpNode(S_and, <<>>) ELSE topOperator,
                            currentOperator),
                       TRUE)
    ELSE IF char = "|"
    THEN IF aggregateOperator /\ topOperator.name = S_and
         THEN LET nestedOperator == OpNode(S_or, <<>>)
                  nested == walkQuery(query, index + 1, nestedOperator)
              IN IF ~nested.ok THEN nested
                 ELSE Return(Push(Push(topOperator, currentOperator), nested.val))
         ELSE walkLoop(query, index + 1, EmptyOperator,
                       Push(IF ~aggregateOperator THEN OpNode(S_or, <<>>) ELSE topOperator,
                            currentOperator),
                       TRUE)
    ELSE IF char = "("
    THEN LET insides == inside(Slice(query, index)) IN
         IF ~insides.ok THEN insides
         ELSE LET split == splitArguments(insides.val) IN
              IF ~split.ok THEN split
              ELSE LET args == mapParseArg(split.val) IN
                   IF ~args.ok THEN args
                   ELSE walkLoop(query, jumpIndex(query, index) + 1,
                                 [currentOperator EXCEPT !.args = args.val],
                                 topOperator, aggregateOperator)
    ELSE walkLoop(query, index + 1,
                  [currentOperator EXCEPT !.name = Append(@, char)],
                  topOperator, aggregateOperator)

walkQuery(query, index, nestedTopOperator) ==
  walkLoop(query, index, EmptyOperator, nestedTopOperator, nestedTopOperator # NoOperator)

(***************************************************************************)
(* normalizeSyntax: infix comparisons to prefix calls.                     *)
(***************************************************************************)
operatorMapKeys ==
  {<<"!", "=">>, <<"<">>, <<"<", "=">>, <<"=">>, <<"=", "=">>, <<">">>, <<">", "=">>}

\* operatorMap with '<=' and '>=' read as the strict comparisons
operatorMapStrict(operator) ==
  CASE operator = <<"!", "=">> -> <<"n", "e">>
    [] operator \in {<<"<">>, <<"<", "=">>} -> <<"l", "t">>
    [] operator \in {<<"=">>, <<"=", "=">>} -> <<"e", "q">>
    [] operator \in {<<">">>, <<">", "=">>} -> <<"g", "t">>

operatorMap(operator) ==
  CASE operator = <<"!", "=">> -> <<"n", "e">>
    [] operator = <<"<">> -> <<"l", "t">>
    [] operator = <<"<", "=">> -> <<"l", "e">>
    [] operator = <<"=">> -> <<"e", "q">>
    [] operator = <<"=", "=">> -> <<"e", "q">>
    [] operator = <<">">> -> <<"g", "t">>
    [] operator = <<">", "=">> -> <<"g", "e">>

IsPrefixAt(s, i, pat) ==
  /\ i + Len(pat) <= Len(s)
  /\ \A k \in 1..Len(pat) : s[i + k] = pat[k]

\* s.replace(/pat/g, rep) for a literal pat
RECURSIVE ReplaceAll(_, _, _)
ReplaceAll(s, pat, rep) ==
  IF s = <<>> THEN <<>>
  ELSE IF IsPrefixAt(s, 0, pat)
  THEN rep \o ReplaceAll(SubSeq(s, Len(pat) + 1, Len(s)), pat, rep)
  ELSE <<Head(s)>> \o ReplaceAll(Tail(s), pat, rep)

\* [\+\*\$\-:\w%\._]
PropertyChars == WordChars \cup {"+", "*", "$", "-", ":", "%", ".", "_"}

\* The length of the longest run of characters of class from index i.
RECURSIVE Run(_, _, _)
Run(s, i, class) ==
  IF i < Len(s) /\ At(s, i) \in class THEN 1 + Run(s, i + 1, class) ELSE 0

\* \([\+\*\$\-:\w%\._,]+\) at index i: the index after it, or -1.
GroupEnd(s, i) ==
  IF i < Len(s) /\ At(s, i) = "("
  THEN LET r == Run(s, i + 1, PropertyChars \cup {","}) IN
       IF r >= 1 /\ i + 1 + r < Len(s) /\ At(s, i + 1 + r) = ")"
       THEN i + r + 2 ELSE -1
  ELSE -1

\* (?:[\w]*=)? at index j: the index after it.
ChainEnd(s, j) ==
  LET w == Run(s, j, WordChars) IN
  IF j + w < Len(s) /\ At(s, j + w) = "=" THEN j + w + 1 ELSE j

\* OperatorEnd taking a '!' that no '=' follows for an operator
OperatorEndBang(s, j) ==
  IF ~(j < Len(s)) THEN -1
  ELSE IF At(s, j) \in {"<", ">", "!"} /\ j + 1 < Len(s) /\ At(s, j + 1) = "="
  THEN ChainEnd(s, j + 2)
  ELSE IF At(s, j) = "=" THEN ChainEnd(s, j + 1)
  ELSE IF At(s, j) \in {">", "<", "!"} THEN j + 1
  ELSE -1

\* ([<>!]?=(?:[\w]*=)?|>|<) at index j: the index after it, or -1.
OperatorEnd(s, j) ==
  IF ~(j < Len(s)) THEN -1
  ELSE IF At(s, j) \in {"<", ">", "!"} /\ j + 1 < Len(s) /\ At(s, j + 1) = "="
  THEN ChainEnd(s, j + 2)
  ELSE IF At(s, j) = "=" THEN ChainEnd(s, j + 1)
  ELSE IF At(s, j) \in {">", "<"} THEN j + 1
  ELSE -1

\* The end of the property of a match that starts at index i, or -1: the
\* alternatives of the first group in their order.
PropertyEnd(s, i) ==
  LET g == GroupEnd(s, i)
      r == i + Run(s, i, PropertyChars \cup {" "})
  IN IF g # -1 /\ OperatorEnd(s, g) # -1 THEN g
     ELSE IF OperatorEnd(s, r) # -1 THEN r
     ELSE -1

\* The end of the value that starts at index k.
ValueEnd(s, k) ==
  LET g == GroupEnd(s, k) IN
  IF g # -1 THEN g ELSE k + Run(s, k, PropertyChars \cup {" "})

\* The callback of the replace: the text that replaces one match.
replacement(property, operator, value) ==
  IF Len(operator) < 3
  THEN IF operator \notin operatorMapKeys
       THEN Throw(RQLParseError)
       ELSE Return(operatorMap(operator) \o <<"(">> \o property \o <<",">> \o value \o <<")">>)
  ELSE Return(Substring(operator, 1, Len(operator) - 1)
              \o <<"(">> \o property \o <<",">> \o value \o <<")">>)

\* what the replace wrote for the text before, followed by what it writes
\* for the rest
FollowedBy(written, rest) == IF ~rest.ok THEN rest ELSE Return(written \o rest.val)

RECURSIVE normalizeFrom(_, _)
normalizeFrom(s, i) ==
  IF ~(i < Len(s)) THEN Return(<<>>)
  ELSE LET p == PropertyEnd(s, i) IN
       IF p = -1
       THEN CHOOSE out \in {FollowedBy(<<At(s, i)>>, rest) :
                              rest \in {normalizeFrom(s, i + 1)}} : TRUE
       ELSE LET o == OperatorEnd(s, p)
                v == ValueEnd(s, o)
                rep == replacement(Substring(s, i, p), Substring(s, p, o), Substring(s, o, v))
            IN IF ~rep.ok THEN rep
               ELSE CHOOSE out \in {FollowedBy(rep.val, rest) :
                                      rest \in {normalizeFrom(s, v)}} : TRUE

normalizeSyntax(query) ==
  LET q1 == ReplaceAll(query, <<"%", "3", "C", "=">>, <<"=", "l", "e", "=">>)
      q2 == ReplaceAll(q1, <<"%", "3", "E", "=">>, <<"=", "g", "e", "=">>)
      q3 == ReplaceAll(q2, <<"%", "3", "C">>, <<"=", "l", "t", "=">>)
      q4 == ReplaceAll(q3, <<"%", "3", "E">>, <<"=", "g", "t", "=">>)
  IN normalizeFrom(q4, 0)

(***************************************************************************)
(* parse                                                                   *)
(***************************************************************************)
\* parse without the check of the first character
parseAnyStart(query) ==
  IF query = <<>> THEN Throw(RQLParseError)
  ELSE LET normalizedQuery == normalizeSyntax(query) IN
       IF ~normalizedQuery.ok THEN normalizedQuery
       ELSE walkQuery(normalizedQuery.val, 0, NoOperator)

parse(query) ==
  IF query = <<>> THEN Throw(RQLParseError)
  ELSE IF CharAt(query, 0) = "?" THEN Throw(RQLParseError)
  ELSE LET normalizedQuery == normalizeSyntax(query) IN
       IF ~normalizedQuery.ok THEN normalizedQuery
       ELSE walkQuery(normalizedQuery.val, 0, NoOperator)

(***************************************************************************)
(* The state machine: an input is drawn and written as the text of a       *)
(* call, then one exported function is called on the text and what it      *)
(* returned or threw is recorded.                                          *)
(***************************************************************************)
Texts(Alphabet, n) == UNION {[1..k -> Alphabet] : k \in 0..n}

NotCalled == Throw("")

\* no loop is running
NoFrame == [op |-> ""]

\* each ')' of s preceded by the escape character
RECURSIVE EscapeParens(_)
EscapeParens(s) ==
  IF s = <<>> THEN <<>>
  ELSE (IF Head(s) = ")" THEN <<delimiter, ")">> ELSE <<Head(s)>>) \o EscapeParens(Tail(s))

CallInside ==
  /\ fn = ""
  /\ fn' = "inside"
  /\ result' = inside(text)
  /\ UNCHANGED <<drawn, text, frame>>

CallInsideEscaped ==
  /\ fn = ""
  /\ fn' = "insideEscaped"
  /\ result' = inside(<<"(">> \o EscapeParens(drawn) \o <<")">>)
  /\ UNCHANGED <<drawn, text, frame>>

CallSplitArguments ==
  /\ fn = ""
  /\ fn' = "splitArguments"
  /\ result' = splitArguments(text)
  /\ UNCHANGED <<drawn, text, frame>>

CallWalkQuery ==
  /\ fn = ""
  /\ fn' = "walkQuery"
  /\ result' = walkQuery(text, 0, NoOperator)
  /\ UNCHANGED <<drawn, text, frame>>

CallParse ==
  /\ fn = ""
  /\ fn' = "parse"
  /\ result' = parse(text)
  /\ UNCHANGED <<drawn, text, frame>>

(***************************************************************************)
(* SpecInside: inside on an opening paren followed by every text over the  *)
(* characters it tells apart.                                              *)
(***************************************************************************)
MaxInsideLen == 6

InsideAlphabet == {"a", "(", ")", "\\", "\"", "'"}

InitInside ==
  /\ drawn \in Texts(InsideAlphabet, MaxInsideLen)
  /\ text = <<"(">> \o drawn
  /\ fn = ""
  /\ result = NotCalled
  /\ frame = NoFrame

NextInside == CallInside \/ CallInsideEscaped

SpecInside == InitInside /\ [][NextInside]_vars

(***************************************************************************)
(* What the claims say of inside, stated on the text itself.  The indices  *)
(* are those of the text, from 1 (index 0 holds the opening paren).        *)
(***************************************************************************)
Quotes == {"'", "\""}

\* Before the character at index i is read: the quote that is open (or ""),
\* and whether an escape character makes this character literal.
RECURSIVE Before(_, _)
Before(str, i) ==
  IF i <= 1 THEN [quote |-> "", literal |-> FALSE]
  ELSE LET b == Before(str, i - 1)
           c == At(str, i - 1)
       IN IF b.literal THEN [quote |-> b.quote, literal |-> FALSE]
          ELSE IF b.quote = "" /\ c = delimiter THEN [quote |-> "", literal |-> TRUE]
          ELSE IF c \in Quotes
          THEN [quote |-> IF b.quote = "" THEN c ELSE IF b.quote = c THEN "" ELSE b.quote,
                literal |-> FALSE]
          ELSE [quote |-> b.quote, literal |-> FALSE]

\* an escape character that is not quoted and not itself escaped
IsEscape(str, i) ==
  At(str, i) = delimiter /\ Before(str, i).quote = "" /\ ~Before(str, i).literal

\* a paren that is neither inside a quoted run nor preceded by the escape character
IsCounted(str, i, paren) ==
  At(str, i) = paren /\ Before(str, i).quote = "" /\ ~Before(str, i).literal

OpenCount(str, i) ==
  1 + Cardinality({j \in 1..i : IsCounted(str, j, "(")})
    - Cardinality({j \in 1..i : IsCounted(str, j, ")")})

Closings(str) ==
  {i \in 1..(Len(str) - 1) : IsCounted(str, i, ")") /\ OpenCount(str, i) = 0}

FirstClosing(str) == CHOOSE i \in Closings(str) : \A j \in Closings(str) : i <= j

\* the characters at the indices from..(to - 1) that are not escape characters
RECURSIVE Kept(_, _, _)
Kept(str, from, to) ==
  IF from >= to THEN <<>>
  ELSE (IF IsEscape(str, from) THEN <<>> ELSE <<At(str, from)>>) \o Kept(str, from + 1, to)

\* C7: for a text that starts with '(' and has a closing paren at which the
\* count of open parens returns to zero (quoted and escaped parens not
\* counted), inside returns the characters between the '(' and the first such
\* paren, quotes kept, each unquoted escape character dropped and the
\* character after it kept.
C7_InsideReturnsGroup ==
  (fn = "inside" /\ Closings(text) # {})
    => result = Return(Kept(text, 1, FirstClosing(text)))

\* a group whose body holds an escaped paren and a quoted paren was returned
C7_Witness ==
  /\ fn = "inside"
  /\ result.ok
  /\ Closings(text) # {}
  /\ \E i \in 1..(FirstClosing(text) - 2) : IsEscape(text, i) /\ At(text, i + 1) = ")"
  /\ \E i \in 1..(FirstClosing(text) - 1) : At(text, i) = ")" /\ Before(text, i).quote # ""

\* C8: inside throws RQLParseError exactly when the text ends before the
\* count of open parens returns to zero, and returns nothing then.
C8_InsideThrowsIffUnclosed ==
  fn = "inside" => (result = Throw(RQLParseError) <=> Closings(text) = {})

\* inside threw on a text whose only closing parens are quoted or escaped
C8_Witness ==
  /\ fn = "inside"
  /\ result = Throw(RQLParseError)
  /\ \E i \in 1..(Len(text) - 1) : At(text, i) = ")" /\ Before(text, i).literal
  /\ \E i \in 1..(Len(text) - 1) : At(text, i) = ")" /\ Before(text, i).quote # ""

Has(s, class) == \E i \in 1..Len(s) : s[i] \in class

\* C9 as stated: for a text s without quote characters,
\* inside('(' + e(s) + ')') returns s, e(s) being s with a backslash before
\* each ')'.
C9_EscapingAsStated ==
  (fn = "insideEscaped" /\ ~Has(drawn, Quotes)) => result = Return(drawn)

\* C9 amended: for a text s without quote characters, escape characters and
\* opening parens, inside('(' + e(s) + ')') returns s.
C9_EscapingInvariant ==
  (fn = "insideEscaped" /\ ~Has(drawn, Quotes \cup {delimiter, "("}))
    => result = Return(drawn)

\* the escaped form of a text with several closing parens was scanned
C9_Witness ==
  /\ fn = "insideEscaped"
  /\ ~Has(drawn, Quotes \cup {delimiter, "("})
  /\ Cardinality({i \in 1..Len(drawn) : drawn[i] = ")"}) >= 2
  /\ result = Return(drawn)

(***************************************************************************)
(* SpecSplit: splitArguments on every text over the characters it tells    *)
(* apart.                                                                  *)
(***************************************************************************)
MaxSplitLen == 5

SplitAlphabet == {"a", ",", " ", "(", ")", "\\", "\"", "'"}

InitSplit ==
  /\ drawn \in Texts(SplitAlphabet, MaxSplitLen)
  /\ text = drawn
  /\ fn = ""
  /\ result = NotCalled
  /\ frame = NoFrame

NextSplit == CallSplitArguments

SpecSplit == InitSplit /\ [][NextSplit]_vars

(***************************************************************************)
(* What the claims say of splitArguments, stated on the text.  The text is *)
(* read behind an opening paren, so that its characters are at the indices *)
(* from 1 and the definitions above apply.                                 *)
(***************************************************************************)
Behind(str) == <<"(">> \o str

\* the number of groups that are open after the character at index i
RECURSIVE Depth(_, _)
Depth(P, i) ==
  IF i < 1 THEN 0
  ELSE LET d == Depth(P, i - 1) IN
       IF IsCounted(P, i, "(") THEN d + 1
       ELSE IF IsCounted(P, i, ")") /\ d > 0 THEN d - 1
       ELSE d

TopLevel(P, i) == Depth(P, i - 1) = 0

\* a comma outside quotes, not escaped, outside any parenthesized group
IsSeparator(P, i) ==
  /\ At(P, i) = ","
  /\ Before(P, i).quote = "" /\ ~Before(P, i).literal
  /\ TopLevel(P, i)

Separators(P) == {i \in 1..(Len(P) - 1) : IsSeparator(P, i)}

RECURSIVE Ascending(_)
Ascending(S) ==
  IF S = {} THEN <<>>
  ELSE LET m == CHOOSE x \in S : \A y \in S : x <= y IN <<m>> \o Ascending(S \ {m})

\* the ends of the arguments: index 0, the separators, the end of the text
Ends(P) == <<0>> \o Ascending(Separators(P)) \o <<Len(P)>>

\* a space that is skipped when it leads an argument
IsPlainSpace(P, i) ==
  At(P, i) = " " /\ Before(P, i).quote = "" /\ ~Before(P, i).literal

\* a quote character that opens or closes a quoted run outside any group
IsQuoteMark(P, i) ==
  /\ At(P, i) \in Quotes /\ ~Before(P, i).literal
  /\ Before(P, i).quote \in {"", At(P, i)}
  /\ TopLevel(P, i)

\* the buffer of the argument at the indices i..(to - 1): escape characters
\* and quote marks dropped, leading spaces skipped, the rest kept
RECURSIVE Buffer(_, _, _, _)
Buffer(P, i, to, buf) ==
  IF i >= to THEN buf
  ELSE IF IsEscape(P, i) \/ IsQuoteMark(P, i) \/ (buf = <<>> /\ IsPlainSpace(P, i))
  THEN Buffer(P, i + 1, to, buf)
  ELSE Buffer(P, i + 1, to, Append(buf, At(P, i)))

BufferOf(P, k) == Buffer(P, Ends(P)[k] + 1, Ends(P)[k + 1], <<>>)

\* the argument k is an array: an opening paren that is neither quoted nor
\* escaped is read while its buffer is empty
IsArrayAt(P, k) ==
  \E i \in (Ends(P)[k] + 1)..(Ends(P)[k + 1] - 1) :
    /\ IsCounted(P, i, "(")
    /\ Buffer(P, Ends(P)[k] + 1, i, <<>>) = <<>>

Blank(buf) == StringTrim(buf) = <<>>

\* the arguments the separators of the text delimit: one per separator, and
\* the trailing buffer when it is not empty
Delimited(P) ==
  LET n == Len(Ends(P)) - 1
      last == IF BufferOf(P, n) = <<>> THEN n - 1 ELSE n
  IN [k \in 1..last |-> StrArg(trim(BufferOf(P, k)))]

\* no argument of the text is an array, empty before its comma, or made of
\* spaces only
PlainArguments(P) ==
  LET n == Len(Ends(P)) - 1 IN
  /\ \A k \in 1..n : ~IsArrayAt(P, k)
  /\ \A k \in 1..(n - 1) : ~Blank(BufferOf(P, k))
  /\ BufferOf(P, n) = <<>> \/ ~Blank(BufferOf(P, n))

\* C10: splitArguments ends an argument exactly at each comma that is outside
\* quotes, not escaped and outside any parenthesized group, keeps quoted and
\* escaped commas in their argument, drops the escape character outside quotes
\* and keeps it inside, skips leading spaces and pushes a non-empty trailing
\* buffer; stated for the texts it splits whose arguments are neither arrays
\* nor blank.
C10_SplitsAtSeparators ==
  (fn = "splitArguments" /\ result.ok /\ PlainArguments(Behind(text)))
    => result.val = Delimited(Behind(text))

\* no escape character stands inside a parenthesized group
NoEscapeInGroup(P) == \A i \in 1..(Len(P) - 1) : IsEscape(P, i) => TopLevel(P, i)

\* the same for the texts without an escape character inside a group
C10_SplitsWithoutGroupEscapes ==
  (fn = "splitArguments" /\ result.ok /\ PlainArguments(Behind(text))
     /\ NoEscapeInGroup(Behind(text)))
    => result.val = Delimited(Behind(text))

(***************************************************************************)
(* SpecArray: splitArguments on the text of a list of arguments that are   *)
(* words or arrays of arguments, the arrays nested up to two deep.  (The   *)
(* text of a call among the arguments is for SpecCall below.)  The         *)
(* characters of a word that splitArguments reads specially are written    *)
(* behind the escape character, and an array that a comma follows is       *)
(* written with some spaces before that comma.                             *)
(***************************************************************************)
MaxArgs == 3

MaxItems == 2

MaxNodes == 6

MaxSpaces == 2

ArrayWords == {<<"a">>, <<",">>}

Special == {",", " ", "(", ")", "\\", "\"", "'"}

RECURSIVE Escaped(_)
Escaped(w) ==
  IF w = <<>> THEN <<>>
  ELSE (IF Head(w) \in Special THEN <<delimiter, Head(w)>> ELSE <<Head(w)>>)
         \o Escaped(Tail(w))

Spaces(n) == [k \in 1..n |-> " "]

RECURSIVE WrittenArg(_, _), WrittenList(_, _)
WrittenArg(arg, spaces) ==
  IF arg.t = "str" THEN Escaped(arg.s)
  ELSE IF arg.t = "arr" THEN <<"(">> \o WrittenList(arg.a, spaces) \o <<")">>
  ELSE arg.name \o <<"(">> \o WrittenList(arg.a, spaces) \o <<")">>

WrittenList(list, spaces) ==
  IF list = <<>> THEN <<>>
  ELSE IF Len(list) = 1 THEN WrittenArg(list[1], spaces)
  ELSE WrittenArg(list[1], spaces)
         \o (IF list[1].t = "arr" THEN Spaces(spaces) ELSE <<>>)
         \o <<",">> \o WrittenList(Tail(list), spaces)

RECURSIVE Nodes(_)
Nodes(list) ==
  IF list = <<>> THEN 0
  ELSE 1 + (IF list[1].t # "str" THEN Nodes(list[1].a) ELSE 0) + Nodes(Tail(list))

Lists(S, n) == UNION {[1..k -> S] : k \in 0..n}

WordArgs == {StrArg(w) : w \in ArrayWords}

Arrays1 == {ArrArg(l) : l \in Lists(WordArgs, MaxItems)}

Arrays2 == {ArrArg(l) : l \in Lists(WordArgs \cup Arrays1, MaxItems)}

InitArray ==
  /\ drawn \in {d \in [args : Lists(WordArgs \cup Arrays2, MaxArgs), spaces : 0..MaxSpaces] :
                  Nodes(d.args) <= MaxNodes}
  /\ text = WrittenList(drawn.args, drawn.spaces)
  /\ fn = ""
  /\ result = NotCalled
  /\ frame = NoFrame

NextArray == CallSplitArguments

SpecArray == InitArray /\ [][NextArray]_vars

\* some word of the list, at any depth, is written with an escape character
RECURSIVE HasEscape(_)
HasEscape(list) ==
  \E k \in 1..Len(list) :
    IF list[k].t # "str" THEN HasEscape(list[k].a) ELSE Escaped(list[k].s) # list[k].s

\* some word inside an array of the list is written with an escape character
EscapeInArray(list) ==
  \E k \in 1..Len(list) : list[k].t = "arr" /\ HasEscape(list[k].a)

\* C6: splitArguments returns each argument that begins with '(' as the array
\* of its own split elements, to any depth and in order, and the arguments
\* before and after an array, spaces or not before the comma, in their places:
\* the text of a list of arguments is split into that list.
C6_ArraysAreSplit ==
  fn = "splitArguments" => result = Return(drawn.args)

\* the same for the lists whose arrays hold no word written with an escape
\* character
C6_ArraysWithoutEscapes ==
  (fn = "splitArguments" /\ ~EscapeInArray(drawn.args)) => result = Return(drawn.args)

(***************************************************************************)
(* SpecRaw: parse on every text over a question mark and the characters of *)
(* calls, well formed or not.                                              *)
(***************************************************************************)
MaxRawLen == 5

RawAlphabet == {"?", "a", "(", ")", "%", "&"}

InitRaw ==
  /\ drawn \in Texts(RawAlphabet, MaxRawLen)
  /\ text = drawn
  /\ fn = ""
  /\ result = NotCalled
  /\ frame = NoFrame

NextRaw == CallParse

SpecRaw == InitRaw /\ [][NextRaw]_vars

\* C5: parse throws RQLParseError when the text is empty or its first
\* character is '?', whatever follows the '?'.
C5_ParseRejectsEmptyAndQuestionMark ==
  (fn = "parse" /\ (text = <<>> \/ Head(text) = "?")) => result = Throw(RQLParseError)

\* parse threw RQLParseError on a '?' followed by a text that alone makes
\* parse throw another error
C5_Witness ==
  /\ fn = "parse"
  /\ text # <<>> /\ Head(text) = "?"
  /\ result = Throw(RQLParseError)
  /\ ~parse(Tail(text)).ok /\ parse(Tail(text)) # Throw(RQLParseError)

(***************************************************************************)
(* SpecJoin: walkQuery on the text of some calls joined by '&', ',' and    *)
(* '|'.  A call has a name and at most one argument; the argument is       *)
(* written as it is or with the escape character before each character.    *)
(***************************************************************************)
MaxCalls == 4

Joiners == {"&", ",", "|"}

AndJoiners == {"&", ","}

JoinCalls ==
  { [name |-> <<"a">>, word |-> <<>>, escaped |-> FALSE],
    [name |-> <<"b">>, word |-> <<"1">>, escaped |-> FALSE],
    [name |-> <<"c">>, word |-> <<"|", "|">>, escaped |-> TRUE],
    [name |-> <<"d">>, word |-> <<"&", "&">>, escaped |-> TRUE] }

RECURSIVE EscapedAll(_)
EscapedAll(w) ==
  IF w = <<>> THEN <<>> ELSE <<delimiter, Head(w)>> \o EscapedAll(Tail(w))

WrittenCall(c) ==
  c.name \o <<"(">> \o (IF c.escaped THEN EscapedAll(c.word) ELSE c.word) \o <<")">>

RECURSIVE WrittenJoin(_, _)
WrittenJoin(calls, joiners) ==
  IF joiners = <<>> THEN WrittenCall(calls[1])
  ELSE WrittenCall(calls[1]) \o <<joiners[1]>> \o WrittenJoin(Tail(calls), Tail(joiners))

InitJoin ==
  /\ drawn \in {d \in [calls : UNION {[1..k -> JoinCalls] : k \in 1..MaxCalls},
                       joiners : Texts(Joiners, MaxCalls - 1)] :
                  Len(d.joiners) = Len(d.calls) - 1}
  /\ text = WrittenJoin(drawn.calls, drawn.joiners)
  /\ fn = ""
  /\ result = NotCalled
  /\ frame = NoFrame

NextJoin == CallWalkQuery

SpecJoin == InitJoin /\ [][NextJoin]_vars

\* the node of a call: its name and its argument converted
CallNode(c) ==
  OpNode(c.name, IF c.word = <<>> THEN <<>> ELSE <<stringToValue(c.word).val>>)

CallNodes(calls) == [k \in 1..Len(calls) |-> CallNode(calls[k])]

AllIn(joiners, S) == \A k \in 1..Len(joiners) : joiners[k] \in S

HasEscapedCall(calls) == \E k \in 1..Len(calls) : calls[k].escaped

\* C2: for two calls or more joined only by '&' and ',', walkQuery returns
\* one node named 'and' whose arguments are the nodes of the calls in order;
\* joined only by '|', one node named 'or' in the same way.
C2_FlatAggregate ==
  (fn = "walkQuery" /\ Len(drawn.calls) >= 2) =>
    /\ AllIn(drawn.joiners, AndJoiners)
         => result = Return(OpNode(S_and, CallNodes(drawn.calls)))
    /\ AllIn(drawn.joiners, {"|"})
         => result = Return(OpNode(S_or, CallNodes(drawn.calls)))

\* the same for the calls written without the escape character
C2_FlatAggregateUnescaped ==
  (fn = "walkQuery" /\ Len(drawn.calls) >= 2 /\ ~HasEscapedCall(drawn.calls)) =>
    /\ AllIn(drawn.joiners, AndJoiners)
         => result = Return(OpNode(S_and, CallNodes(drawn.calls)))
    /\ AllIn(drawn.joiners, {"|"})
         => result = Return(OpNode(S_or, CallNodes(drawn.calls)))

\* the joiners are m - 1 >= 1 of the set First, then n >= 1 of the set Then
SwitchAt(joiners, m, First, Then) ==
  /\ m >= 2 /\ m <= Len(joiners)
  /\ \A k \in 1..(m - 1) : joiners[k] \in First
  /\ \A k \in m..Len(joiners) : joiners[k] \in Then

\* what C3 says walkQuery returns for the calls and their joiners
Switched(calls, joiners, m) ==
  LET nodes == CallNodes(calls) IN
  IF joiners[1] = "|"
  THEN OpNode(S_or, Append(SubSeq(nodes, 1, m - 1),
                           OpNode(S_and, SubSeq(nodes, m, Len(nodes)))))
  ELSE OpNode(S_and, Append(SubSeq(nodes, 1, m),
                            OpNode(S_or, SubSeq(nodes, m + 1, Len(nodes)))))

\* C3: for x1|...|xm&y1&...&yn walkQuery returns or[x1..x(m-1), and[xm,y1..yn]]
\* and for x1&...&xm|y1|...|yn it returns and[x1..xm, or[y1..yn]].
C3_JoinerSwitch ==
  fn = "walkQuery" =>
    \A m \in 2..MaxCalls :
      (\/ SwitchAt(drawn.joiners, m, {"|"}, AndJoiners)
       \/ SwitchAt(drawn.joiners, m, AndJoiners, {"|"}))
        => result = Return(Switched(drawn.calls, drawn.joiners, m))

\* the same for the calls written without the escape character
C3_JoinerSwitchUnescaped ==
  (fn = "walkQuery" /\ ~HasEscapedCall(drawn.calls)) =>
    \A m \in 2..MaxCalls :
      (\/ SwitchAt(drawn.joiners, m, {"|"}, AndJoiners)
       \/ SwitchAt(drawn.joiners, m, AndJoiners, {"|"}))
        => result = Return(Switched(drawn.calls, drawn.joiners, m))

JoinerName(joiner) == IF joiner \in AndJoiners THEN S_and ELSE S_or

Changes(joiners) ==
  Cardinality({k \in 1..(Len(joiners) - 1) : JoinerName(joiners[k]) # JoinerName(joiners[k + 1])})

IsAggregate(node) == node.t = "op" /\ node.name \in {S_and, S_or}

\* every aggregate below the node is the last argument of its parent and has
\* the other name
RECURSIVE WellNested(_)
WellNested(node) ==
  \A k \in 1..Len(node.args) :
    IsAggregate(node.args[k]) =>
      /\ k = Len(node.args)
      /\ node.args[k].name # node.name
      /\ WellNested(node.args[k])

RECURSIVE AggregateDepth(_)
AggregateDepth(node) ==
  IF node.args # <<>> /\ IsAggregate(node.args[Len(node.args)])
  THEN 1 + AggregateDepth(node.args[Len(node.args)])
  ELSE 1

\* C4: for calls joined by any mix of '&', ',' and '|', the node walkQuery
\* returns is named after the first joiner, every other aggregate is the last
\* argument of its parent and has the opposite name, and the nesting depth is
\* the number of changes of joiner plus one.
C4_Nesting ==
  (fn = "walkQuery" /\ Len(drawn.calls) >= 2 /\ result.ok) =>
    /\ result.val.name = JoinerName(drawn.joiners[1])
    /\ WellNested(result.val)
    /\ AggregateDepth(result.val) = Changes(drawn.joiners) + 1

\* the same for the calls written without the escape character
C4_NestingUnescaped ==
  (fn = "walkQuery" /\ Len(drawn.calls) >= 2 /\ ~HasEscapedCall(drawn.calls)) =>
    /\ result.ok
    /\ result.val.name = JoinerName(drawn.joiners[1])
    /\ WellNested(result.val)
    /\ AggregateDepth(result.val) = Changes(drawn.joiners) + 1

(***************************************************************************)
(* SpecCall: parse on the text of one call whose arguments are words,      *)
(* calls of words, or arrays of words and calls.                           *)
(***************************************************************************)
MaxCallArgs == 2

MaxCallNodes == 5

CallWords == {<<"a">>, <<"1">>, <<"a", ",", "b">>}

CallName == <<"e", "q">>

CallArg(name, args) == [t |-> "call", name |-> name, a |-> args]

ValueArgs == {StrArg(w) : w \in CallWords}

InnerCalls == {CallArg(<<"f">>, l) : l \in Lists(ValueArgs, MaxItems)}

InnerArrays == {ArrArg(l) : l \in Lists(ValueArgs \cup InnerCalls, MaxItems)}

InitCall ==
  /\ drawn \in {l \in Lists(ValueArgs \cup InnerCalls \cup InnerArrays, MaxCallArgs) :
                  Nodes(l) <= MaxCallNodes}
  /\ text = WrittenArg(CallArg(CallName, drawn), 0)
  /\ fn = ""
  /\ result = NotCalled
  /\ frame = NoFrame

NextCall == CallParse

SpecCall == InitCall /\ [][NextCall]_vars

\* what C1 says an argument becomes: a word the value stringToValue gives, a
\* call a node, an array the array of what its elements become
RECURSIVE Converted(_)
Converted(arg) ==
  IF arg.t = "str" THEN stringToValue(arg.s).val
  ELSE IF arg.t = "arr" THEN ArrNode([k \in 1..Len(arg.a) |-> Converted(arg.a[k])])
  ELSE OpNode(arg.name, [k \in 1..Len(arg.a) |-> Converted(arg.a[k])])

\* C1: for the text of a single call name(a1,...,an), parse returns the node
\* whose name is the text before '(' and whose arguments are the n arguments
\* in order, each a converted value, a node or an array of these.
C1_ParseSingleCall ==
  fn = "parse" => result = Return(Converted(CallArg(CallName, drawn)))

\* the same for the calls whose words are written without the escape character
C1_ParseSingleCallUnescaped ==
  (fn = "parse" /\ ~HasEscape(drawn)) => result = Return(Converted(CallArg(CallName, drawn)))

(***************************************************************************)
(* SpecEmbedded: splitArguments on the text of a call f(body) followed by  *)
(* a comma and a second argument, for every body whose parens match.       *)
(***************************************************************************)
MaxBodyLen == 5

BodyAlphabet == {"a", ",", " ", "(", ")", "\\", "\""}

EmbeddedName == <<"f">>

NextArgument == <<"b">>

\* the closing paren written after the body is the one that matches
Matched(body) ==
  LET group == <<"(">> \o body \o <<")">> IN
  Closings(group) # {} /\ FirstClosing(group) = Len(body) + 1

InitEmbedded ==
  /\ drawn \in {body \in Texts(BodyAlphabet, MaxBodyLen) : Matched(body)}
  /\ text = EmbeddedName \o <<"(">> \o drawn \o <<")", ",">> \o NextArgument
  /\ fn = ""
  /\ result = NotCalled
  /\ frame = NoFrame

NextEmbedded == CallSplitArguments

SpecEmbedded == InitEmbedded /\ [][NextEmbedded]_vars

\* C11: splitArguments keeps a call in the middle of an argument as one
\* argument, the name, the opening paren, the body as written and the closing
\* paren, and goes on right after that paren: the argument after the comma is
\* the next one.
C11_EmbeddedCallKept ==
  fn = "splitArguments" =>
    result = Return(<<StrArg(EmbeddedName \o <<"(">> \o drawn \o <<")">>),
                      StrArg(NextArgument)>>)

\* the same for the bodies without an escape character
C11_EmbeddedCallWithoutEscapes ==
  (fn = "splitArguments" /\ ~Has(drawn, {delimiter})) =>
    result = Return(<<StrArg(EmbeddedName \o <<"(">> \o drawn \o <<")">>),
                      StrArg(NextArgument)>>)

(***************************************************************************)
(* SpecTrim: trim on every text over a letter, the quotes, a space and a   *)
(* line feed.                                                              *)
(***************************************************************************)
MaxTrimLen == 5

TrimAlphabet == {"a", " ", "\n", "'", "\""}

CallTrim ==
  /\ fn = ""
  /\ fn' = "trim"
  /\ result' = Return(trim(text))
  /\ UNCHANGED <<drawn, text, frame>>

InitTrim ==
  /\ drawn \in Texts(TrimAlphabet, MaxTrimLen)
  /\ text = drawn
  /\ fn = ""
  /\ result = NotCalled
  /\ frame = NoFrame

NextTrim == CallTrim

SpecTrim == InitTrim /\ [][NextTrim]_vars

\* the text from its first to its last character that is not whitespace
Unpadded(s) ==
  LET inked == {i \in 1..Len(s) : s[i] \notin Whitespace} IN
  IF inked = {} THEN <<>>
  ELSE SubSeq(s, CHOOSE i \in inked : \A j \in inked : i <= j,
                 CHOOSE i \in inked : \A j \in inked : j <= i)

\* the text begins and ends with the same quote character, two characters
InQuotePair(s) == Len(s) >= 2 /\ s[1] \in Quotes /\ s[Len(s)] = s[1]

\* C12: trim returns the text without its leading and trailing whitespace and,
\* exactly when what is left begins and ends with the same quote character,
\* without that one outer pair.
C12_TrimStripsOnePair ==
  fn = "trim" =>
    result = Return(IF InQuotePair(Unpadded(text))
                    THEN SubSeq(Unpadded(text), 2, Len(Unpadded(text)) - 1)
                    ELSE Unpadded(text))

\* the same for the texts without a line terminator between their first and
\* last characters that are not whitespace
C12_TrimOnOneLine ==
  (fn = "trim" /\ ~Has(Unpadded(text), LineTerminators)) =>
    result = Return(IF InQuotePair(Unpadded(text))
                    THEN SubSeq(Unpadded(text), 2, Len(Unpadded(text)) - 1)
                    ELSE Unpadded(text))

(***************************************************************************)
(* SpecInfix: normalizeSyntax on the text of some terms joined by '&' and  *)
(* '|'; a term is a comparison, a property, an operator and a value, or a  *)
(* call in prefix form.                                                    *)
(***************************************************************************)
MaxTerms == 2

InfixWords == {<<"a">>, <<"b", "_", "1">>}

InfixOperators ==
  {<<"=">>, <<"=", "=">>, <<"!", "=">>, <<"<">>, <<"<", "=">>, <<">">>, <<">", "=">>}

PrefixTexts == {<<"f", "(", ")">>, <<"e", "q", "(", "a", ",", "1", ")">>}

Comparisons ==
  [kind : {"infix"}, property : InfixWords, operator : InfixOperators, value : InfixWords]

PrefixTerms == [kind : {"prefix"}, call : PrefixTexts]

RECURSIVE Joined(_, _)
Joined(texts, joiners) ==
  IF joiners = <<>> THEN texts[1]
  ELSE texts[1] \o <<joiners[1]>> \o Joined(Tail(texts), Tail(joiners))

WrittenTerm(term) ==
  IF term.kind = "infix" THEN term.property \o term.operator \o term.value ELSE term.call

CallNormalizeSyntax ==
  /\ fn = ""
  /\ fn' = "normalizeSyntax"
  /\ result' = normalizeSyntax(text)
  /\ UNCHANGED <<drawn, text, frame>>

InitInfix ==
  /\ drawn \in {d \in [terms : UNION {[1..k -> Comparisons \cup PrefixTerms] : k \in 1..MaxTerms},
                       joiners : Texts({"&", "|"}, MaxTerms - 1)] :
                  Len(d.joiners) = Len(d.terms) - 1}
  /\ text = Joined([k \in 1..Len(drawn.terms) |-> WrittenTerm(drawn.terms[k])], drawn.joiners)
  /\ fn = ""
  /\ result = NotCalled
  /\ frame = NoFrame

NextInfix == CallNormalizeSyntax

SpecInfix == InitInfix /\ [][NextInfix]_vars

\* the table of C13
TableName(operator) ==
  IF operator \in {<<"=">>, <<"=", "=">>} THEN <<"e", "q">>
  ELSE IF operator = <<"!", "=">> THEN <<"n", "e">>
  ELSE IF operator = <<"<">> THEN <<"l", "t">>
  ELSE IF operator = <<"<", "=">> THEN <<"l", "e">>
  ELSE IF operator = <<">">> THEN <<"g", "t">>
  ELSE <<"g", "e">>

Rewritten(term) ==
  IF term.kind = "infix"
  THEN TableName(term.operator) \o <<"(">> \o term.property \o <<",">> \o term.value \o <<")">>
  ELSE term.call

\* C13: normalizeSyntax rewrites each comparison p op v of identifier
\* characters to name(p,v), the name from the table, each comparison on its
\* own, and leaves the joiners and the calls in prefix form as they are.
C13_InfixToPrefix ==
  fn = "normalizeSyntax" =>
    result = Return(Joined([k \in 1..Len(drawn.terms) |-> Rewritten(drawn.terms[k])],
                           drawn.joiners))

\* a '<=' or '>=' comparison joined with a call in prefix form was rewritten
C13_Witness ==
  /\ fn = "normalizeSyntax"
  /\ result.ok
  /\ result.val # text
  /\ \E k \in 1..Len(drawn.terms) :
       drawn.terms[k].kind = "infix" /\ drawn.terms[k].operator \in {<<"<", "=">>, <<">", "=">>}
  /\ \E k \in 1..Len(drawn.terms) : drawn.terms[k].kind = "prefix"

(***************************************************************************)
(* SpecNormalize: normalizeSyntax, once and twice, on every text over the  *)
(* characters of comparisons, of calls and of an encoded '>'.              *)
(***************************************************************************)
MaxNormalizeLen == 4

NormalizeAlphabet == {"a", "=", ">", "!", "(", ")", ",", "%", "3", "E"}

CallNormalizeTwice ==
  /\ fn = ""
  /\ fn' = "normalizeTwice"
  /\ result' = (LET once == normalizeSyntax(text) IN
                IF once.ok THEN normalizeSyntax(once.val) ELSE once)
  /\ UNCHANGED <<drawn, text, frame>>

InitNormalize ==
  /\ drawn \in Texts(NormalizeAlphabet, MaxNormalizeLen)
  /\ text = drawn
  /\ fn = ""
  /\ result = NotCalled
  /\ frame = NoFrame

NextNormalize == CallNormalizeSyntax \/ CallNormalizeTwice

SpecNormalize == InitNormalize /\ [][NextNormalize]_vars

\* the text is in prefix form: no comparison character and no encoded one
Canonical(s) ==
  /\ ~Has(s, {"=", "<", ">"})
  /\ \A i \in 0..(Len(s) - 1) :
       ~IsPrefixAt(s, i, <<"%", "3", "C">>) /\ ~IsPrefixAt(s, i, <<"%", "3", "E">>)

\* C15 as stated: normalizeSyntax returns a text in prefix form unchanged, and
\* applied to what it returned for any text it returns the same again.
C15_Idempotent ==
  /\ (fn = "normalizeSyntax" /\ Canonical(text)) => result = Return(text)
  /\ (fn = "normalizeTwice" /\ normalizeSyntax(text).ok) => result = normalizeSyntax(text)

\* C15 amended: normalizeSyntax returns a text in prefix form unchanged, so
\* applied once or twice to such a text it returns that text.
C15_CanonicalUnchanged ==
  (fn \in {"normalizeSyntax", "normalizeTwice"} /\ Canonical(text)) => result = Return(text)

\* a text in prefix form with a call, a '!' and a '%' went through twice
C15_Witness ==
  /\ fn = "normalizeTwice"
  /\ Canonical(text)
  /\ \E i \in 0..(Len(text) - 1) : IsPrefixAt(text, i, <<"a", "(">>)
  /\ Has(text, {"!"}) /\ Has(text, {"%"})
  /\ result = Return(text)

(***************************************************************************)
(* SpecChained: normalizeSyntax on every text over a letter and the        *)
(* characters of the comparison operators.                                 *)
(***************************************************************************)
MaxChainedLen == 5

ChainedAlphabet == {"a", "=", ">", "<", "!"}

InitChained ==
  /\ drawn \in Texts(ChainedAlphabet, MaxChainedLen)
  /\ text = drawn
  /\ fn = ""
  /\ result = NotCalled
  /\ frame = NoFrame

NextChained == CallNormalizeSyntax

SpecChained == InitChained /\ [][NextChained]_vars

\* a comparison whose operator is '>=', '<=' or '!=' followed by one more '=',
\* between a property and a value of identifier characters
ChainedAt(s, i) ==
  /\ i >= 2 /\ i + 3 <= Len(s)
  /\ s[i - 1] \in WordChars
  /\ s[i] \in {">", "<", "!"} /\ s[i + 1] = "=" /\ s[i + 2] = "="
  /\ s[i + 3] \in WordChars

HasChained(s) == \E i \in 1..Len(s) : ChainedAt(s, i)

\* C14: normalizeSyntax throws RQLParseError on a comparison whose operator is
\* a comparison followed by an extra '=', such as foo>==bar, and returns no
\* text for it.
C14_ChainedOperatorThrows ==
  (fn = "normalizeSyntax" /\ HasChained(text)) => result = Throw(RQLParseError)

\* normalizeSyntax throws on no text: every operator of one or two characters
\* that its pattern matches is in operatorMap
C14_NormalizeNeverThrows == fn = "normalizeSyntax" => result.ok

(***************************************************************************)
(* SpecValue: stringToValue on a raw argument written as a tag, a colon    *)
(* or none, and a remainder.                                               *)
(***************************************************************************)
MaxRestLen == 4

RestAlphabet == {"a", "1", ":", "\\", "%", "'"}

TagTexts ==
  {<<>>, <<"a">>, <<"a", "b">>, <<"1", "2">>, <<"r", "e", "!">>,
   S_re, S_RE, <<"R", "e">>, S_number, S_boolean, S_string, S_auto,
   <<"S", "t", "r", "i", "n", "g">>, S_constructor, S___proto__}

Colons == {<<>>, <<":">>}

CallStringToValue ==
  /\ fn = ""
  /\ fn' = "stringToValue"
  /\ result' = stringToValue(text)
  /\ UNCHANGED <<drawn, text, frame>>

InitValue ==
  /\ drawn \in [tag : TagTexts, colon : Colons, rest : Texts(RestAlphabet, MaxRestLen)]
  /\ text = drawn.tag \o drawn.colon \o drawn.rest
  /\ fn = ""
  /\ result = NotCalled
  /\ frame = NoFrame

NextValue == CallStringToValue

SpecValue == InitValue /\ [][NextValue]_vars

\* the number of word characters the text starts with
RECURSIVE WordPrefix(_)
WordPrefix(s) ==
  IF s # <<>> /\ Head(s) \in WordChars THEN 1 + WordPrefix(Tail(s)) ELSE 0

\* the text starts with one or more word characters followed by a colon
Tagged(s) ==
  WordPrefix(s) >= 1 /\ Len(s) > WordPrefix(s) /\ s[WordPrefix(s) + 1] = ":"

TagOf(s) == toLowerCase(SubSeq(s, 1, WordPrefix(s)))

RemainderOf(s) == SubSeq(s, WordPrefix(s) + 2, Len(s))

\* the tags of the registry of converters
Registered ==
  {S_auto, S_default, S_number, S_boolean, S_string, S_re, S_json,
   S_epoch, S_isodate, S_date}

\* C16 (as stated): a text that starts with one or more word characters and
\* a colon is converted by the converter its lower-cased tag names, applied
\* to the remainder after the colon (un-escaped as C18 says); an
\* unregistered tag throws RQLParseError; a text without such a start is
\* converted whole by the default converter.
C16_TagSelectsConverter ==
  fn = "stringToValue" =>
    result = IF ~Tagged(text)
             THEN auto(ReplaceFirstEscapedColon(text))
             ELSE IF TagOf(text) \notin Registered
             THEN Throw(RQLParseError)
             ELSE converters(TagOf(text), ReplaceFirstEscapedColon(RemainderOf(text)))

\* word characters, then one character that is neither a word character, a
\* backslash nor a colon, then a colon
OddTag(s) ==
  /\ WordPrefix(s) >= 1
  /\ Len(s) >= WordPrefix(s) + 2
  /\ s[WordPrefix(s) + 1] \notin {"\\", ":"}
  /\ s[WordPrefix(s) + 2] = ":"

\* a tag of one character, not followed by a second colon
ShortTag(s) == Tagged(s) /\ WordPrefix(s) = 1 /\ ~(Len(s) >= 3 /\ s[3] = ":")

\* a tag that names a property every object inherits
InheritedTag(s) == Tagged(s) /\ TagOf(s) \in {S_constructor, S___proto__}

\* C16 away from the three shapes the test of parser.ts:382 and the lookup
\* of parser.ts:386 read differently: the statement of C16 holds.
C16_TagOfTwoOrMore ==
  (fn = "stringToValue" /\ ~OddTag(text) /\ ~ShortTag(text) /\ ~InheritedTag(text)) =>
    result = IF ~Tagged(text)
             THEN auto(ReplaceFirstEscapedColon(text))
             ELSE IF TagOf(text) \notin Registered
             THEN Throw(RQLParseError)
             ELSE converters(TagOf(text), ReplaceFirstEscapedColon(RemainderOf(text)))

\* the text is a tag 're' in one of its cases, a colon, and a pattern
RegExpTagged == drawn.tag \in {S_re, S_RE, <<"R", "e">>} /\ drawn.colon = <<":">>

\* C17 (as stated): 'RE:' + p gives the case-sensitive regular expression
\* of the percent-decoded pattern p and 're:' + p the case-insensitive one:
\* the case of the tag as written selects the converter.
C17_TagCaseSelectsRegExp ==
  (fn = "stringToValue" /\ RegExpTagged /\ drawn.tag \in {S_re, S_RE}) =>
    result = regexp(ReplaceFirstEscapedColon(drawn.rest), drawn.tag = S_re)

\* C17 as the code has it: the tag is lower-cased before the lookup, so
\* every case of the tag gives the case-insensitive regular expression.
C17_EveryCaseIsInsensitive ==
  (fn = "stringToValue" /\ RegExpTagged) =>
    result = regexp(ReplaceFirstEscapedColon(drawn.rest), TRUE)

\* every colon of the text is preceded by a backslash
EveryColonEscaped(s) ==
  \A i \in 1..Len(s) : s[i] = ":" => (i > 1 /\ s[i - 1] = "\\")

\* the text with each '\:' replaced by ':'
RECURSIVE ReplaceEachEscapedColon(_)
ReplaceEachEscapedColon(s) ==
  IF Len(s) < 2 THEN s
  ELSE IF s[1] = "\\" /\ s[2] = ":"
  THEN <<":">> \o ReplaceEachEscapedColon(SubSeq(s, 3, Len(s)))
  ELSE <<Head(s)>> \o ReplaceEachEscapedColon(Tail(s))

\* the number of colons of the text
RECURSIVE ColonCount(_)
ColonCount(s) ==
  IF s = <<>> THEN 0 ELSE (IF Head(s) = ":" THEN 1 ELSE 0) + ColonCount(Tail(s))

\* C18 (as stated): a text in which every colon is preceded by a backslash
\* is not tagged, and its value is the default conversion of the text with
\* each '\:' replaced by ':'.
C18_EscapedColons ==
  (fn = "stringToValue" /\ EveryColonEscaped(text)) =>
    result = auto(ReplaceEachEscapedColon(text))

\* C18 for a text with at most one colon: the statement holds.
C18_OneEscapedColon ==
  (fn = "stringToValue" /\ EveryColonEscaped(text) /\ ColonCount(text) <= 1) =>
    result = auto(ReplaceEachEscapedColon(text))

(***************************************************************************)
(* SpecConverters: converters.boolean and converters.auto on the words of  *)
(* the table of literals, in several cases, and on short texts.            *)
(***************************************************************************)
MaxConverterLen == 4

ConverterAlphabet == {"1", "a", "-", " ", "%", "'", "\\", "\""}

LiteralWords ==
  autoConvertedKeys \cup
  {<<"T", "R", "U", "E">>, <<"T", "r", "u", "e">>, <<"t", "r", "u", "e", " ">>,
   <<"t", "r", "u">>, <<"F", "a", "l", "s", "e">>, <<"N", "U", "L", "L">>,
   <<"i", "n", "f", "i", "n", "i", "t", "y">>, <<"+">> \o S_Infinity}

CallBoolean ==
  /\ fn = ""
  /\ fn' = "boolean"
  /\ result' = boolean(text)
  /\ UNCHANGED <<drawn, text, frame>>

CallAuto ==
  /\ fn = ""
  /\ fn' = "auto"
  /\ result' = auto(text)
  /\ UNCHANGED <<drawn, text, frame>>

InitConverters ==
  /\ drawn \in LiteralWords \cup Texts(ConverterAlphabet, MaxConverterLen)
  /\ text = drawn
  /\ fn = ""
  /\ result = NotCalled
  /\ frame = NoFrame

NextConverters == CallBoolean \/ CallAuto

SpecConverters == InitConverters /\ [][NextConverters]_vars

\* the text reads 'true' when case is ignored
ReadsTrue(s) ==
  /\ Len(s) = 4
  /\ s[1] \in {"t", "T"}
  /\ s[2] \in {"r", "R"}
  /\ s[3] \in {"u", "U"}
  /\ s[4] \in {"e", "E"}

\* C19 (as stated): boolean and auto are total: boolean returns true iff
\* the lower-cased text is 'true' and false otherwise; auto returns a value
\* on every text and throws nothing.
C19_BooleanAndAutoTotal ==
  /\ fn = "boolean" => result = Return(BooleanVal(ReadsTrue(text)))
  /\ fn = "auto" => result.ok

\* the text is wrapped in single quotes
SingleQuoted(s) == Len(s) >= 2 /\ s[1] = "'" /\ s[Len(s)] = "'"

\* C19 away from percent signs and single-quoted texts: boolean is total on
\* every text, and auto returns a value on a text that holds no '%' and is
\* not wrapped in single quotes.
C19_AutoTotalOnPlainText ==
  /\ fn = "boolean" => result = Return(BooleanVal(ReadsTrue(text)))
  /\ (fn = "auto" /\ ~Has(text, {"%"}) /\ ~SingleQuoted(text)) => result.ok

(***************************************************************************)
(* encodeString and encodeValue of src/src/query.ts                        *)
(***************************************************************************)
\* the characters encodeURIComponent leaves as they are
UnreservedChars ==
  LowerLetters \cup UpperLetters \cup Digits \cup
  {"-", "_", ".", "!", "~", "*", "'", "(", ")"}

HexUpperSeq ==
  <<"0", "1", "2", "3", "4", "5", "6", "7", "8", "9", "A", "B", "C", "D", "E", "F">>

\* the code of a character of codes 32..126
CodeOf(c) == 31 + (CHOOSE i \in 1..Len(Ascii) : Ascii[i] = c)

PercentEncoded(c) ==
  <<"%", HexUpperSeq[(CodeOf(c) \div 16) + 1], HexUpperSeq[(CodeOf(c) % 16) + 1]>>

\* encodeURIComponent, on the characters of codes 32..126
RECURSIVE encodeURIComponent(_)
encodeURIComponent(s) ==
  IF s = <<>> THEN <<>>
  ELSE (IF Head(s) \in UnreservedChars THEN <<Head(s)>> ELSE PercentEncoded(Head(s)))
       \o encodeURIComponent(Tail(s))

\* str.replace(c, by) with a string as pattern: the first occurrence only
RECURSIVE ReplaceFirst(_, _, _)
ReplaceFirst(s, c, by) ==
  IF s = <<>> THEN <<>>
  ELSE IF Head(s) = c THEN by \o Tail(s)
  ELSE <<Head(s)>> \o ReplaceFirst(Tail(s), c, by)

encodeString(str) ==
  LET enc == encodeURIComponent(str) IN
  IF Has(enc, {"(", ")"})
  THEN ReplaceFirst(ReplaceFirst(enc, "(", <<"%", "2", "8">>), ")", <<"%", "2", "9">>)
  ELSE enc

\* the decimal digits of a natural number
RECURSIVE DecimalText(_)
DecimalText(n) ==
  IF n < 10 THEN <<DigitSeq[n + 1]>>
  ELSE DecimalText(n \div 10) \o <<DigitSeq[(n % 10) + 1]>>

\* a Date, by the text of its toISOString() and that of its toString()
DateVal(iso, str) == [t |-> "val", type |-> "date", iso |-> iso, str |-> str]

\* a plain object, by the text JSON.stringify gives for it
StructVal(stringified) == [t |-> "val", type |-> "struct", json |-> stringified]

S_objectObject ==
  <<"[", "o", "b", "j", "e", "c", "t", " ", "O", "b", "j", "e", "c", "t", "]">>

\* val.toString(), and the text a template or a join writes for val.
\* undefined and null have no toString: the call throws TypeError.
toString(val) ==
  CASE val.type = "string" -> Return(val.str)
    [] val.type = "number" /\ "num" \in DOMAIN val ->
         Return(IF val.num < 0 THEN <<"-">> \o DecimalText(-val.num)
                ELSE DecimalText(val.num))
    [] val.type = "number" /\ "inf" \in DOMAIN val ->
         Return(IF val.inf < 0 THEN <<"-">> \o S_Infinity ELSE S_Infinity)
    [] val.type = "boolean" -> Return(IF val.bool THEN S_true ELSE S_false)
    [] val.type = "regexp" ->
         Return(<<"/">> \o val.source \o <<"/">> \o
                (IF val.ignoreCase THEN <<"i">> ELSE <<>>))
    [] val.type = "date" -> Return(val.str)
    [] val.type = "struct" -> Return(S_objectObject)
    [] val.type \in {"undefined", "null"} -> Throw(TypeError)

\* typeof val
typeof(val) ==
  IF val.type \in {"regexp", "date", "struct", "null"} THEN "object" ELSE val.type

\* typeof val as the text the template writes
typeName(val) ==
  CASE typeof(val) = "number" -> S_number
    [] typeof(val) = "boolean" -> S_boolean

S_json_tag == S_json \o <<":", "'">>

\* encodeValue: what it returns is a string, or val itself when val is not
\* a string and its string form converts back to it.
encodeValue(val) ==
  IF val = NullVal THEN Return(StringVal(S_null))
  ELSE LET str == toString(val) IN
       IF ~str.ok THEN str
       ELSE LET convertedValue == auto(str.val) IN
            IF ~convertedValue.ok THEN convertedValue
            ELSE IF val # convertedValue.val
            THEN IF val.type = "regexp"
                 THEN Return(StringVal((IF val.ignoreCase THEN S_re ELSE S_RE) \o <<":">>
                                       \o encodeString(val.source)))
                 ELSE IF val.type = "date"
                 THEN Return(StringVal(S_date \o <<":">> \o val.iso))
                 ELSE IF typeof(val) = "string"
                 THEN Return(StringVal(S_string \o <<":">> \o encodeString(val.str)))
                 ELSE IF typeof(val) = "object"
                 THEN Return(StringVal(S_json_tag \o val.json \o <<"'">>))
                 ELSE Return(StringVal(encodeString(typeName(val) \o <<":">> \o str.val)))
            ELSE IF typeof(val) = "string"
            THEN Return(StringVal(encodeString(val.str)))
            ELSE Return(val)

(***************************************************************************)
(* SpecRoundTrip: a value is encoded by encodeValue, written as text, and  *)
(* the text is converted back by stringToValue.                            *)
(***************************************************************************)
MaxValueLen == 3

MaxNumber == 12

MaxSourceLen == 2

ValueAlphabet == {"a", "1", "%", "'", "\\", "(", ")", ":", " "}

SourceAlphabet == {"a", "%", ":"}

ValueWords == {S_true, S_null, S_undefined, S_Infinity, <<"1", "2", "3", "4">>}

Values ==
  {StringVal(t) : t \in ValueWords \cup Texts(ValueAlphabet, MaxValueLen)}
  \cup {NumberVal(n) : n \in (0 - MaxNumber)..MaxNumber}
  \cup {InfinityVal(1), InfinityVal(-1)}
  \cup {BooleanVal(TRUE), BooleanVal(FALSE), NullVal, UndefinedVal}
  \cup {RegExpVal(p, i) : p \in {S_emptySource} \cup (Texts(SourceAlphabet, MaxSourceLen) \ {<<>>}),
                          i \in BOOLEAN}

\* the text a join or a template writes for what encodeValue returned
Written(x) == toString(x).val

CallEncodeValue ==
  /\ fn = ""
  /\ fn' = "encodeValue"
  /\ result' = encodeValue(drawn)
  /\ text' = IF result'.ok THEN Written(result'.val) ELSE text
  /\ UNCHANGED <<drawn, frame>>

CallStringToValueBack ==
  /\ fn = "encodeValue"
  /\ result.ok
  /\ fn' = "stringToValue"
  /\ result' = stringToValue(text)
  /\ UNCHANGED <<drawn, text, frame>>

InitRoundTrip ==
  /\ drawn \in Values
  /\ text = <<>>
  /\ fn = ""
  /\ result = NotCalled
  /\ frame = NoFrame

NextRoundTrip == CallEncodeValue \/ CallStringToValueBack

SpecRoundTrip == InitRoundTrip /\ [][NextRoundTrip]_vars

\* a string the default conversion does not give back as it is
LooksLikeAnotherValue(v) ==
  v.type = "string" /\ auto(v.str).ok /\ auto(v.str).val # v

StartsWith(s, prefix) ==
  Len(s) >= Len(prefix) /\ SubSeq(s, 1, Len(prefix)) = prefix

\* C20 (as stated): every value is encoded, and the text of its encoding
\* converts back to the same value; a string that reads as a number or a
\* literal is written with the tag 'string:'.
C20_RoundTrip ==
  /\ fn = "encodeValue" => result.ok
  /\ (fn = "encodeValue" /\ LooksLikeAnotherValue(drawn)) =>
       StartsWith(text, S_string \o <<":">>)
  /\ fn = "stringToValue" => result = Return(drawn)

\* the values the round trip loses: undefined, a case-sensitive regular
\* expression, and a value whose string form the default converter rejects
Lost(v) ==
  \/ v = UndefinedVal
  \/ v.type = "regexp" /\ ~v.ignoreCase
  \/ v.type \in {"string", "regexp"} /\ ~auto(toString(v).val).ok

\* C20 for the other values (null, booleans, numbers, strings and
\* case-insensitive regular expressions whose string form converts): the
\* round trip holds.
C20_RoundTripOfConvertible ==
  ~Lost(drawn) =>
    /\ fn = "encodeValue" => result.ok
    /\ (fn = "encodeValue" /\ LooksLikeAnotherValue(drawn)) =>
         StartsWith(text, S_string \o <<":">>)
    /\ fn = "stringToValue" => result = Return(drawn)

(***************************************************************************)
(* SpecEncode: encodeValue on a value of every kind, and encodeString on   *)
(* the text of a string.                                                   *)
(***************************************************************************)
S_isoDate ==
  <<"2", "0", "1", "9", "-", "1", "1", "-", "2", "0", "T", "1", "2", ":", "0", "0",
    ":", "0", "0", ".", "0", "0", "0", "Z">>

S_dateString ==
  <<"W", "e", "d", " ", "N", "o", "v", " ", "2", "0", " ", "2", "0", "1", "9", " ",
    "1", "2", ":", "0", "0", ":", "0", "0", " ", "G", "M", "T", "+", "0", "0", "0", "0">>

Dates == {DateVal(S_isoDate, S_dateString)}

Structs ==
  {StructVal(<<"{", "}">>),
   StructVal(<<"{", "\"", "a", "\"", ":", "1", "}">>),
   StructVal(<<"{", "\"", "a", "\"", ":", "\"", "(", "'", "\"", "}">>)}

CallEncodeString ==
  /\ fn = ""
  /\ drawn.type = "string"
  /\ fn' = "encodeString"
  /\ result' = Return(StringVal(encodeString(drawn.str)))
  /\ text' = encodeString(drawn.str)
  /\ UNCHANGED <<drawn, frame>>

InitEncode ==
  /\ drawn \in Values \cup Dates \cup Structs
  /\ text = <<>>
  /\ fn = ""
  /\ result = NotCalled
  /\ frame = NoFrame

NextEncode == CallEncodeValue \/ CallEncodeString

SpecEncode == InitEncode /\ [][NextEncode]_vars

\* the default converter applied to the string form of v gives v itself
Reproduces(v) == toString(v).ok /\ auto(toString(v).val) = Return(v)

\* the tag and the payload C21 names for a value that is not reproduced
TaggedForm(v) ==
  CASE v.type = "regexp" ->
         (IF v.ignoreCase THEN S_re ELSE S_RE) \o <<":">> \o encodeString(v.source)
    [] v.type = "date" -> S_date \o <<":">> \o v.iso
    [] v.type = "struct" -> S_json \o <<":", "'">> \o v.json \o <<"'">>
    [] v.type = "string" -> S_string \o <<":">> \o encodeString(v.str)

\* C21 (as stated): encodeValue returns 'null' for null; it writes the
\* percent-encoded string form without a tag exactly when the default
\* converter gives the value back from its string form; otherwise it writes
\* the tag of the kind of the value and the payload.
C21_TagOnlyWhenNeeded ==
  fn = "encodeValue" =>
    /\ result.ok
    /\ drawn = NullVal => text = S_null
    /\ (drawn # NullVal /\ Reproduces(drawn)) =>
         text = encodeString(toString(drawn).val)
    /\ (drawn.type \in {"regexp", "date", "struct", "string"} /\ ~Reproduces(drawn)) =>
         text = TaggedForm(drawn)

\* the values encodeValue does not encode: undefined, and a value whose
\* string form the default converter rejects
NotEncoded(v) ==
  \/ v = UndefinedVal
  \/ toString(v).ok /\ ~auto(toString(v).val).ok

\* C21 for the values encodeValue encodes: the statement holds.
C21_TagOnlyWhenNeededEncoded ==
  (fn = "encodeValue" /\ ~NotEncoded(drawn)) =>
    /\ result.ok
    /\ drawn = NullVal => text = S_null
    /\ (drawn # NullVal /\ Reproduces(drawn)) =>
         text = encodeString(toString(drawn).val)
    /\ (drawn.type \in {"regexp", "date", "struct", "string"} /\ ~Reproduces(drawn)) =>
         text = TaggedForm(drawn)

\* the number of characters of the text that are in the class
RECURSIVE CountOf(_, _)
CountOf(s, class) ==
  IF s = <<>> THEN 0
  ELSE (IF Head(s) \in class THEN 1 ELSE 0) + CountOf(Tail(s), class)

\* C22 (as stated): the text encodeString returns holds no '(' and no ')':
\* it holds one '%28' or '%29' for each parenthesis of the string.
C22_NoLiteralParen ==
  fn = "encodeString" =>
    /\ ~Has(text, {"(", ")"})
    /\ CountOf(text, {"%"}) =
         CountOf(drawn.str, {"(", ")"}) + CountOf(drawn.str, {"%", "\\", ":", " "})

\* C22 for a string with at most one '(' and at most one ')': the
\* statement holds.
C22_OneParenOfEachKind ==
  (fn = "encodeString" /\ CountOf(drawn.str, {"("}) <= 1 /\ CountOf(drawn.str, {")"}) <= 1) =>
    /\ ~Has(text, {"(", ")"})
    /\ CountOf(text, {"%"}) =
         CountOf(drawn.str, {"(", ")"}) + CountOf(drawn.str, {"%", "\\", ":", " "})

(***************************************************************************)
(* RQLQuery.parse and queryToString: the tree as RQLQuery objects, and its *)
(* text.                                                                   *)
(***************************************************************************)
\* new RQLQuery(name, args)
RQLQuery(name, args) == [t |-> "query", name |-> name, args |-> args]

\* arg && arg.name && Array.isArray(arg.args)
isRQLOperator(arg) == arg.t = "op" /\ arg.name # <<>>

\* RQLQuery.parseObject and RQLQuery.parseArg: an operator becomes an
\* RQLQuery and so do the operators among its arguments; any other
\* argument, an array with what it holds included, is kept as it is.
RECURSIVE RQLQuery_parseObject(_)
RECURSIVE RQLQuery_parseArg(_)
RQLQuery_parseArg(arg) ==
  IF isRQLOperator(arg) THEN RQLQuery_parseObject(arg) ELSE arg

RQLQuery_parseObject(obj) ==
  RQLQuery(obj.name, [k \in 1..Len(obj.args) |-> RQLQuery_parseArg(obj.args[k])])

RQLQuery_parse(query) ==
  CHOOSE out \in {IF ~obj.ok THEN obj ELSE Return(RQLQuery_parseObject(obj.val)) :
                    obj \in {parse(query)}} : TRUE

\* the characters of a string as JSON.stringify writes them between quotes
RECURSIVE JSONquoted(_)
JSONquoted(s) ==
  IF s = <<>> THEN <<>>
  ELSE (IF Head(s) \in {"\"", "\\"} THEN <<"\\", Head(s)>> ELSE <<Head(s)>>)
       \o JSONquoted(Tail(s))

S_nameKey == <<"{", "\"", "n", "a", "m", "e", "\"", ":">>

S_argsKey == <<",", "\"", "a", "r", "g", "s", "\"", ":">>

\* JSON.stringify of a value, an array or a plain operator object
RECURSIVE JSONstringify(_)
RECURSIVE JSONitems(_)
JSONitems(list) ==
  IF list = <<>> THEN <<>>
  ELSE IF Len(list) = 1 THEN JSONstringify(list[1])
  ELSE JSONstringify(list[1]) \o <<",">> \o JSONitems(Tail(list))

JSONstringify(x) ==
  CASE x.t = "op" ->
         S_nameKey \o <<"\"">> \o JSONquoted(x.name) \o <<"\"">>
         \o S_argsKey \o <<"[">> \o JSONitems(x.args) \o <<"]", "}">>
    [] x.t = "arr" -> <<"[">> \o JSONitems(x.a) \o <<"]">>
    [] x.t = "val" /\ x.type = "string" -> <<"\"">> \o JSONquoted(x.str) \o <<"\"">>
    [] x.t = "val" /\ x.type = "number" /\ "num" \in DOMAIN x -> toString(x).val
    [] x.t = "val" /\ x.type = "boolean" -> toString(x).val
    [] x.t = "val" /\ x.type \in {"null", "undefined"} -> S_null

\* queryToString and serializeArgs, with ',' as delimiter.  What
\* encodeValue returns is written into the text by the join.
RECURSIVE queryToString(_)
RECURSIVE serializeArgs(_)
serializeArgs(args) ==
  IF args = <<>> THEN Return(<<>>)
  ELSE LET first == queryToString(Head(args)) IN
       IF ~first.ok THEN first
       ELSE IF Len(args) = 1 THEN first
       ELSE LET rest == serializeArgs(Tail(args)) IN
            IF ~rest.ok THEN rest ELSE Return(first.val \o <<",">> \o rest.val)

queryToString(part) ==
  IF part.t = "arr"
  THEN LET items == serializeArgs(part.a) IN
       IF ~items.ok THEN items ELSE Return(<<"(">> \o items.val \o <<")">>)
  ELSE IF part.t = "query"
  THEN LET items == serializeArgs(part.args) IN
       IF ~items.ok THEN items ELSE Return(part.name \o <<"(">> \o items.val \o <<")">>)
  ELSE LET val == encodeValue(IF part.t = "op" THEN StructVal(JSONstringify(part)) ELSE part) IN
       IF ~val.ok THEN val ELSE Return(Written(val.val))

(***************************************************************************)
(* SpecText: the text of one call with plain words, numbers, calls and     *)
(* arrays as arguments is parsed and the tree is written back.             *)
(***************************************************************************)
MaxTextArgs == 2

MaxTextNodes == 3

PlainWords == {<<"a">>, <<"1", "2">>, S_true, S_undefined}

PlainArgs == {StrArg(w) : w \in PlainWords}

PlainCalls == {CallArg(<<"f">>, l) : l \in Lists(PlainArgs, MaxItems)}

PlainArrays == {ArrArg(l) : l \in Lists(PlainArgs \cup PlainCalls, MaxItems)}

CallToString ==
  /\ fn = ""
  /\ fn' = "toString"
  /\ \E query \in {RQLQuery_parse(text)} :
       result' = IF ~query.ok THEN query ELSE queryToString(query.val)
  /\ UNCHANGED <<drawn, text, frame>>

\* the arguments small enough to be written in a text of MaxTextNodes nodes
TextArgs ==
  {arg \in PlainArgs \cup PlainCalls \cup PlainArrays : Nodes(<<arg>>) <= MaxTextNodes}

InitText ==
  /\ drawn \in {l \in Lists(TextArgs, MaxTextArgs) : Nodes(l) <= MaxTextNodes}
  /\ text = WrittenArg(CallArg(CallName, drawn), 0)
  /\ fn = ""
  /\ result = NotCalled
  /\ frame = NoFrame

NextText == CallToString

SpecText == InitText /\ [][NextText]_vars

\* C23 (as stated): the text of one call with plain words, numbers, nested
\* calls and arrays as arguments comes back unchanged when the tree parse
\* gives for it is written as text.
C23_TextRoundTrip ==
  fn = "toString" => result = Return(text)

\* an array of the list holds a call
RECURSIVE CallInArray(_)
CallInArray(list) ==
  \E k \in 1..Len(list) :
    \/ list[k].t = "arr" /\ \E j \in 1..Len(list[k].a) : list[k].a[j].t = "call"
    \/ list[k].t # "str" /\ CallInArray(list[k].a)

\* the word 'undefined' is an argument somewhere in the list
RECURSIVE HasUndefined(_)
HasUndefined(list) ==
  \E k \in 1..Len(list) :
    IF list[k].t = "str" THEN list[k].s = S_undefined ELSE HasUndefined(list[k].a)

\* C23 for a text without a call inside an array and without the word
\* 'undefined': the round trip holds.
C23_TextRoundTripPlain ==
  (fn = "toString" /\ ~CallInArray(drawn) /\ ~HasUndefined(drawn)) =>
    result = Return(text)

\* C24 (as stated, under SpecRaw): on every text parse returns an operator
\* tree or throws RQLParseError or RQLConversionError, and nothing else.
C24_OnlyDeclaredErrors ==
  fn = "parse" =>
    IF result.ok THEN result.val.t = "op"
    ELSE result.err \in {RQLParseError, RQLConversionError}

\* C24 for a text without a percent sign: the statement holds.
C24_OnlyDeclaredErrorsWithoutPercent ==
  (fn = "parse" /\ ~Has(text, {"%"})) =>
    IF result.ok THEN result.val.t = "op"
    ELSE result.err \in {RQLParseError, RQLConversionError}

\* the names of the operator nodes of a tree
RECURSIVE NamesOf(_)
NamesOf(node) ==
  IF node.t = "op"
  THEN {node.name} \cup UNION {NamesOf(node.args[k]) : k \in 1..Len(node.args)}
  ELSE IF node.t = "arr"
  THEN UNION {NamesOf(node.a[k]) : k \in 1..Len(node.a)}
  ELSE {}

\* the index of the '(' of the first call of the text
FirstGroup == Len(drawn.calls[1].name)

\* C25 (as stated, under SpecJoin): after the group of the first call the
\* next character walkQuery examines is the one after the matching ')', and
\* every name in the tree is 'and', 'or' or the name of a call of the text.
C25_ResumesAfterGroup ==
  fn = "walkQuery" =>
    /\ jumpIndex(text, FirstGroup) + 1
         = FirstGroup + FirstClosing(Slice(text, FirstGroup)) + 1
    /\ result.ok
    /\ NamesOf(result.val) \subseteq
         {S_and, S_or} \cup {drawn.calls[k].name : k \in 1..Len(drawn.calls)}

\* C25 for calls whose bodies hold no escape character: the statement holds.
C25_ResumesAfterGroupUnescaped ==
  (fn = "walkQuery" /\ ~HasEscapedCall(drawn.calls)) =>
    /\ jumpIndex(text, FirstGroup) + 1
         = FirstGroup + FirstClosing(Slice(text, FirstGroup)) + 1
    /\ result.ok
    /\ NamesOf(result.val) \subseteq
         {S_and, S_or} \cup {drawn.calls[k].name : k \in 1..Len(drawn.calls)}

(***************************************************************************)
(* The loops of inside, splitArguments and walkQuery, one iteration at a   *)
(* time.  A frame holds the text scanned (str), the index at the head of   *)
(* the loop, the index of the iteration before (prev), the locals of the   *)
(* loop, what the index jumps of the last iteration added (jump), and the  *)
(* calls the last iteration made: each on a later index of the same text   *)
(* (same, from) or on another text (its length, len).                      *)
(***************************************************************************)
MaxStepLen == 4

StepAlphabet == {"a", "(", ")", ",", "\\", "|", "\""}

\* the texts scanned: every short text, bare and as the body of a group
StepTexts ==
  Texts(StepAlphabet, MaxStepLen)
    \cup {<<"(">> \o body \o <<")">> : body \in Texts(StepAlphabet, MaxStepLen)}

Running(f) == [done |-> FALSE, frame |-> f]

Finished(f, r) == [done |-> TRUE, frame |-> [f EXCEPT !.op = ""], result |-> r]

SubstringCall(str) == [same |-> FALSE, len |-> Len(str), from |-> 0]

LaterCall(str, index) == [same |-> TRUE, len |-> Len(str), from |-> index]

\* a loop that forgets index++
StayAt(f) == f

\* index++ at the end of a turn of the loop
Advance(f) == [f EXCEPT !.index = @ + 1]

\* let index = 1 ... : the locals of inside before the loop
insideFrame(str) ==
  [op |-> "inside", fn |-> "inside", str |-> str, index |-> 1, prev |-> 0, jump |-> 0, calls |-> {},
   insideStr |-> <<>>, untilCount |-> 1, delimited |-> FALSE, quoteType |-> ""]

\* the test of the while loop of inside, one turn of its body and index++
insideStep(f) ==
  LET at == [f EXCEPT !.prev = f.index, !.jump = 0, !.calls = {}]
      next == Advance(at)
  IN
  IF ~(f.index < Len(f.str)) THEN Finished(at, Throw(RQLParseError))
  ELSE
    LET char == At(f.str, f.index) IN
    IF f.delimited
    THEN Running([next EXCEPT !.insideStr = Append(@, char), !.delimited = FALSE])
    ELSE IF f.quoteType = "" /\ char = delimiter
    THEN Running([next EXCEPT !.delimited = TRUE])
    ELSE IF char = "'" \/ char = "\""
    THEN Running([next EXCEPT !.insideStr = Append(@, char),
                              !.quoteType = IF @ = "" THEN char
                                            ELSE IF @ = char THEN "" ELSE @])
    ELSE IF f.quoteType # ""
    THEN Running([next EXCEPT !.insideStr = Append(@, char)])
    ELSE IF char = "("
    THEN Running([next EXCEPT !.insideStr = Append(@, char), !.untilCount = @ + 1])
    ELSE IF char = ")"
    THEN IF f.untilCount - 1 = 0
         THEN Finished(at, Return(f.insideStr))
         ELSE Running([next EXCEPT !.insideStr = Append(@, char), !.untilCount = @ - 1])
    ELSE Running([next EXCEPT !.insideStr = Append(@, char)])

\* the locals of splitArguments before the loop
splitFrame(str) ==
  [op |-> "splitArguments", fn |-> "splitArguments", str |-> str, index |-> 0, prev |-> -1, jump |-> 0,
   calls |-> {}, args |-> <<>>, currentArg |-> <<>>, delimited |-> FALSE,
   quoteType |-> ""]

\* the test of the for loop of splitArguments, one turn of its body and
\* index++; after the loop, the last argument
splitStep(f) ==
  LET at == [f EXCEPT !.prev = f.index, !.jump = 0, !.calls = {}]
      next == Advance(at)
  IN
  IF ~(f.index < Len(f.str))
  THEN Finished(at, Return(IF Len(StringTrim(f.currentArg)) > 0
                           THEN Append(f.args, StrArg(trim(f.currentArg)))
                           ELSE f.args))
  ELSE
    LET char == At(f.str, f.index) IN
    IF f.delimited
    THEN Running([next EXCEPT !.currentArg = Append(@, char), !.delimited = FALSE])
    ELSE IF f.quoteType = "" /\ char = delimiter
    THEN Running([next EXCEPT !.delimited = TRUE])
    ELSE IF char = "'" \/ char = "\""
    THEN IF f.quoteType = "" THEN Running([next EXCEPT !.quoteType = char])
         ELSE IF f.quoteType = char THEN Running([next EXCEPT !.quoteType = ""])
         ELSE Running([next EXCEPT !.currentArg = Append(@, char)])
    ELSE IF f.quoteType # ""
    THEN Running([next EXCEPT !.currentArg = Append(@, char)])
    ELSE IF Len(f.currentArg) = 0
    THEN IF char = "("
         THEN LET arr == inside(Slice(f.str, f.index)) IN
              IF ~arr.ok THEN Finished(at, arr)
              ELSE LET sub == splitArguments(arr.val)
                       called == [at EXCEPT !.calls = {SubstringCall(arr.val)}]
                   IN
                   IF ~sub.ok THEN Finished(called, sub)
                   ELSE LET jumped == f.index + Len(arr.val) + 1
                            toNext == toNextArg(Slice(f.str, jumped))
                        IN Running(Advance([called EXCEPT
                                      !.args = Append(@, ArrArg(sub.val)),
                                      !.jump = Len(arr.val) + 1 + toNext,
                                      !.index = jumped + toNext]))
         ELSE IF char = " " THEN Running(next)
         ELSE Running([next EXCEPT !.currentArg = Append(@, char)])
    ELSE IF char = ","
    THEN Running([next EXCEPT !.args = Append(@, StrArg(trim(f.currentArg))),
                              !.currentArg = <<>>])
    ELSE IF char = "("
    THEN LET strInside == inside(Slice(f.str, f.index)) IN
         IF ~strInside.ok THEN Finished(at, strInside)
         ELSE Running(Advance([at EXCEPT
                                 !.currentArg = @ \o <<char>> \o strInside.val,
                                 !.jump = Len(strInside.val),
                                 !.index = f.index + Len(strInside.val)]))
    ELSE Running([next EXCEPT !.currentArg = Append(@, char)])

\* the texts parseArg hands to walkQuery, among the arguments and the
\* elements of the arrays
RECURSIVE WalkedArgs(_)
WalkedArgs(list) ==
  UNION {IF list[k].t = "str"
         THEN (IF isRQLQuery(list[k].s) THEN {list[k].s} ELSE {})
         ELSE WalkedArgs(list[k].a) : k \in 1..Len(list)}

\* the locals of walkQuery before the loop
walkFrame(query, index, nestedTopOperator) ==
  [op |-> "walkQuery", fn |-> "walkQuery", str |-> query, index |-> index, prev |-> index - 1, jump |-> 0,
   calls |-> {}, pending |-> <<>>, currentOperator |-> EmptyOperator,
   topOperator |-> nestedTopOperator,
   aggregateOperator |-> nestedTopOperator # NoOperator]

\* topOperator.args.push(walkQuery(...)); return topOperator, in every call
\* that waits for the one that returned
RECURSIVE Unwind(_, _)
Unwind(pending, returned) ==
  IF pending = <<>> THEN returned
  ELSE Unwind(SubSeq(pending, 1, Len(pending) - 1),
              Push(pending[Len(pending)], returned))

\* walkQuery(query, index + 1, nestedOperator): the locals of the call made,
\* and the operator that waits for what it returns
nestedFrame(f, waiting, nestedOperator) ==
  [walkFrame(f.str, f.index + 1, nestedOperator)
     EXCEPT !.fn = f.fn, !.prev = f.index,
            !.calls = {LaterCall(f.str, f.index + 1)},
            !.pending = Append(f.pending, waiting)]

\* the test of the for loop of walkQuery, one turn of its body and index++;
\* after the loop, the operator returned
walkStep(f) ==
  LET at == [f EXCEPT !.prev = f.index, !.jump = 0, !.calls = {}]
      next == Advance(at)
      started == [next EXCEPT !.currentOperator = EmptyOperator,
                              !.aggregateOperator = TRUE]
  IN
  IF ~(f.index < Len(f.str))
  THEN Finished(at, Return(Unwind(f.pending,
                                  IF f.aggregateOperator
                                  THEN Push(f.topOperator, f.currentOperator)
                                  ELSE f.currentOperator)))
  ELSE
    LET char == At(f.str, f.index) IN
    IF char = "&" \/ char = ","
    THEN IF f.aggregateOperator /\ f.topOperator.name = S_or
         THEN Running(nestedFrame(f, f.topOperator,
                                  OpNode(S_and, <<f.currentOperator>>)))
         ELSE Running([started EXCEPT
                         !.topOperator = Push(IF ~f.aggregateOperator
                                              THEN OpNode(S_and, <<>>) ELSE @,
                                              f.currentOperator)])
    ELSE IF char = "|"
    THEN IF f.aggregateOperator /\ f.topOperator.name = S_and
         THEN Running(nestedFrame(f, Push(f.topOperator, f.currentOperator),
                                  OpNode(S_or, <<>>)))
         ELSE Running([started EXCEPT
                         !.topOperator = Push(IF ~f.aggregateOperator
                                              THEN OpNode(S_or, <<>>) ELSE @,
                                              f.currentOperator)])
    ELSE IF char = "("
    THEN LET insides == inside(Slice(f.str, f.index)) IN
         IF ~insides.ok THEN Finished(at, insides)
         ELSE LET split == splitArguments(insides.val)
                  called == [at EXCEPT !.calls = {SubstringCall(insides.val)}]
              IN
              IF ~split.ok THEN Finished(called, split)
              ELSE LET args == mapParseArg(split.val)
                       walked == [called EXCEPT !.calls =
                                    @ \cup {SubstringCall(w) : w \in WalkedArgs(split.val)}]
                   IN
                   IF ~args.ok THEN Finished(walked, args)
                   ELSE Running(Advance([walked EXCEPT
                                   !.currentOperator.args = args.val,
                                   !.jump = Len(insides.val) + 1,
                                   !.index = jumpIndex(f.str, f.index)]))
    ELSE Running([next EXCEPT !.currentOperator.name = Append(@, char)])

(***************************************************************************)
(* The scans as processes: a call begins with the locals of its function,  *)
(* every step is one turn of its loop, and the last step returns or        *)
(* throws.                                                                 *)
(***************************************************************************)
BeginInside ==
  /\ fn = "" /\ frame = NoFrame
  /\ drawn' \in StepTexts
  /\ text' = drawn'
  /\ frame' = insideFrame(text')
  /\ UNCHANGED <<fn, result>>

BeginSplitArguments ==
  /\ fn = "" /\ frame = NoFrame
  /\ drawn' \in StepTexts
  /\ text' = drawn'
  /\ frame' = splitFrame(text')
  /\ UNCHANGED <<fn, result>>

BeginWalkQuery ==
  /\ fn = "" /\ frame = NoFrame
  /\ drawn' \in StepTexts
  /\ text' = drawn'
  /\ frame' = walkFrame(text', 0, NoOperator)
  /\ UNCHANGED <<fn, result>>

\* parse: the two checks, normalizeSyntax, then walkQuery on what it wrote
BeginParse ==
  /\ fn = "" /\ frame = NoFrame
  /\ drawn' \in StepTexts
  /\ text' = drawn'
  /\ IF text' = <<>> \/ CharAt(text', 0) = "?" \/ ~normalizeSyntax(text').ok
     THEN /\ fn' = "parse"
          /\ result' = parse(text')
          /\ UNCHANGED frame
     ELSE /\ frame' = [walkFrame(normalizeSyntax(text').val, 0, NoOperator)
                         EXCEPT !.fn = "parse"]
          /\ UNCHANGED <<fn, result>>

Take(step) ==
  /\ frame' = step.frame
  /\ IF step.done
     THEN fn' = frame.fn /\ result' = step.result
     ELSE UNCHANGED <<fn, result>>
  /\ UNCHANGED <<drawn, text>>

StepInside == frame.op = "inside" /\ Take(insideStep(frame))

StepSplitArguments == frame.op = "splitArguments" /\ Take(splitStep(frame))

StepWalkQuery == frame.op = "walkQuery" /\ Take(walkStep(frame))

\* no call has begun: a call draws its text when it begins
InitSteps ==
  /\ drawn = <<>>
  /\ text = drawn
  /\ fn = ""
  /\ result = NotCalled
  /\ frame = NoFrame

NextSteps ==
  \/ BeginInside
  \/ BeginSplitArguments
  \/ BeginWalkQuery
  \/ BeginParse
  \/ StepInside
  \/ StepSplitArguments
  \/ StepWalkQuery

SpecSteps == InitSteps /\ [][NextSteps]_vars

\* every turn of a loop leaves the index strictly later than it found it
EveryStepAdvances ==
  [][frame.op # "" /\ frame'.op # "" => frame'.index > frame.index]_vars

\* what a jump after a scanned group adds to the index is never negative
JumpsNeverNegative == frame # NoFrame => frame.jump >= 0

\* a call made by a turn of a loop is on a later index of the same text or
\* on a shorter text
CallsDescend ==
  frame # NoFrame =>
    \A c \in frame.calls :
      IF c.same THEN c.len = Len(frame.str) /\ c.from > frame.prev
      ELSE c.len < Len(frame.str)

\* the turns of a loop, taken one after another, end in what the function
\* returns or throws
StepsComputeTheCall ==
  /\ fn = "inside" => result = inside(text)
  /\ fn = "splitArguments" => result = splitArguments(text)
  /\ fn = "walkQuery" => result = walkQuery(text, 0, NoOperator)
  /\ fn = "parse" => result = parse(text)

\* a loop never runs past the end of its text by more than the jump that
\* ends it: with every turn strictly advancing, a loop over a text of n
\* characters takes at most n + 2 turns
IndexBounded == frame # NoFrame => frame.index <= Len(frame.str) + 1

\* a call that has begun and not ended is in one of the three loops, whose
\* next turn is defined on every frame
InALoop == frame.op # "" => frame.op \in {"inside", "splitArguments", "walkQuery"}

\* C26: for every finite text, inside, splitArguments, walkQuery and parse
\* return or throw: a call that has not ended is in a loop, every turn of
\* a loop strictly advances the scan index, which the length of the text
\* bounds, no jump after a scanned group is negative, and every call made
\* from a loop is on a strictly later index of the same text or on a
\* strictly shorter text.
C26_Terminates ==
  /\ EveryStepAdvances
  /\ [](InALoop /\ IndexBounded)
  /\ [](JumpsNeverNegative /\ CallsDescend /\ StepsComputeTheCall)

\* a call of walkQuery has ended after a jump over a group whose arguments
\* were split and one of them walked as a call of its own
C26_Witness ==
  /\ fn = "walkQuery" /\ result.ok
  /\ frame.prev = Len(text)
  /\ \E k \in 1..Len(text) : text[k] = "(" /\ isRQLQuery(Slice(text, k))

(***************************************************************************)
(* SpecEscape: parse on the text of one call, eq(body), whose body is made *)
(* of words, commas and the escape character.                              *)
(***************************************************************************)
MaxEscapeLen == 5

EscapeAlphabet == {"f", "b", ",", "\\"}

InitEscape ==
  /\ drawn \in Texts(EscapeAlphabet, MaxEscapeLen)
  /\ text = CallName \o <<"(">> \o drawn \o <<")">>
  /\ fn = ""
  /\ result = NotCalled
  /\ frame = NoFrame

NextEscape == CallParse

SpecEscape == InitEscape /\ [][NextEscape]_vars

\* the call named eq whose arguments are those splitArguments gives when it
\* is called on the body directly, each converted
SplitDirectly(body) == OpNode(CallName, mapParseArg(splitArguments(body).val).val)

\* C27: in a full parse the escape character is consumed exactly once: the
\* arguments of eq(body) are those splitArguments(body) gives when called
\* directly, so that eq(foo\,bar) has the single argument 'foo,bar'.  The
\* body is one whose every escape character has a character to escape.
C27_EscapeConsumedOnce ==
  (fn = "parse" /\ ~DanglingBackslash(drawn)) => result = Return(SplitDirectly(drawn))

\* the body holds the escape character
Escapes(body) == \E k \in 1..Len(body) : body[k] = delimiter

\* away from the escape character, the arguments of a full parse are those
\* of splitArguments called directly on the body
C27_SplitDirectlyUnescaped ==
  (fn = "parse" /\ ~Escapes(drawn)) => result = Return(SplitDirectly(drawn))

(***************************************************************************)
(* SpecQuoted: parse on the text of one call, eq(foo,"body"), whose second *)
(* argument is written inside quotes of either kind.                       *)
(***************************************************************************)
MaxQuotedLen == 4

QuotedAlphabet == {"a", "b", "(", ")"}

S_foo == <<"f", "o", "o">>

InitQuoted ==
  /\ drawn \in [quote : Quotes, body : Texts(QuotedAlphabet, MaxQuotedLen)]
  /\ text = CallName \o <<"(">> \o S_foo \o <<",", drawn.quote>> \o drawn.body
              \o <<drawn.quote, ")">>
  /\ fn = ""
  /\ result = NotCalled
  /\ frame = NoFrame

NextQuoted == CallParse

SpecQuoted == InitQuoted /\ [][NextQuoted]_vars

\* the call named eq with the argument foo and the text between the quotes
\* converted as a value
QuotedAsValue(body) == OpNode(CallName, <<StringVal(S_foo), stringToValue(body).val>>)

\* C28: an argument written inside quotes is always converted as a value
\* and never parsed again as a call: eq(foo,"startsWith(bar") has the
\* string argument 'startsWith(bar', not a node of its own and not an error
\* for a missing closing paren.  The text between the quotes is not empty.
C28_QuotedIsValue ==
  (fn = "parse" /\ drawn.body # <<>>) => result = Return(QuotedAsValue(drawn.body))

\* away from a word followed by an opening paren, the text between the
\* quotes is converted as a value
C28_QuotedIsValueWithoutCall ==
  (fn = "parse" /\ drawn.body # <<>> /\ ~isRQLQuery(drawn.body))
    => result = Return(QuotedAsValue(drawn.body))

=============================================================================
